---- MODULE Spec2Model ----
(***************************************************************************)
(* A model of mcpboot: the domain whitelist and its gated fetch, the       *)
(* planner's validation and retry loop, and the sandboxed executor that    *)
(* serves tool calls on Node's single-threaded event loop.                 *)
(*                                                                         *)
(* Text is modelled as tuples of one-character strings, so that string     *)
(* operations of the source (endsWith, a regular expression test, URL      *)
(* parsing) are computed character by character.                           *)
(***************************************************************************)
EXTENDS Integers, Sequences, FiniteSets, TLC

VARIABLES
    \* ---- whitelist.ts ----
    wlPhase,         \* "inputs" before buildWhitelist ran, "built" after
    promptUrls,      \* argument promptUrls of buildWhitelist
    contents,        \* argument contents of buildWhitelist (FetchedContent[])
    domains,         \* Whitelist.domains, the Set<string> buildWhitelist filled
    realFetchCalls,  \* the URLs realFetch has been invoked with
    lastFetch,       \* the last call of the gated fetch and how it settled
    \* ---- engine/planner.ts: generatePlan ----
    plPc,            \* "call": about to call llm.generate; "process": a response
                     \* is in hand; "returned" / "failed": generatePlan settled
    plAttempt,       \* the loop variable attempt of generatePlan
    plCalls,         \* number of llm.generate calls made
    plPrompts,       \* the arguments of each llm.generate call, in order
    plResponse,      \* the response being processed (parsed lazily by JsonParse)
    plLastError,     \* lastError
    plResult,        \* the plan generatePlan resolved to, or the error it threw
    \* ---- engine/executor.ts, engine/sandbox.ts, log.ts: the serving process ----
    svVerbose,       \* verboseEnabled of the logging module
    svRunning,       \* the call whose JavaScript is on the stack, 0 when the
                     \* event loop is idle (one thread runs every callback)
    svCalls,         \* the execute(name, args) calls made so far, in order
    svHeap,          \* the objects args values are made of, by reference
    svGlobals,       \* properties handlers have set on the host's built-in objects
    svFetchLog,      \* the realFetch invocations, each with the call that made it
    \* ---- cache.ts: createCache ----
    caEnabled,       \* config.enabled
    caFiles,         \* the cache directory: file name -> file content
    caLast,          \* the last get: its key and what it returned
    caWritten,       \* per key, the entry last passed to set, or that the file
                     \* was put there by something else
    \* ---- index.ts buildContentHash, cache.ts serializeCompiled /
    \*      deserializeCompiled: functions applied to an input ----
    fnName,          \* the function, "idle" when none
    fnInput,         \* its argument
    fnDone,          \* it has returned
    fnOutput,        \* what it returned
    \* ---- index.ts main, fetcher.ts fetchUrls ----
    mnRun,           \* 1 for the first start of the program, 2 for the second
    mnPc,            \* where main is: "idle", "fetching", "planning",
                     \* "compiling", "starting", "serving", "exited", "failed"
    mnConfig,        \* config: dryRun, pipe.stdoutIsPipe, server.port
    mnPrompt,        \* config.prompt and the URLs extractUrls finds in it
    mnFetches,       \* per URL, the state of its fetchUrl promise
    mnOrder,         \* the indexes of the URLs in the order their fetches settled
    mnContents,      \* contents
    mnPlan,          \* plan
    mnCompiled,      \* compiled
    mnDomains,       \* the domains of activeWhitelist and how it was made
    mnPort,          \* the port server.start() resolved to
    mnTrace,         \* what this run has called, in order
    mnStdout,        \* what this run has written to stdout, in order
    mnFirst,         \* what the first run left behind, for the second to be
                     \* compared with
    mnReply,         \* the response to the last MCP request of this run
    \* ---- engine/compiler.ts: compilePlan ----
    coPc,            \* "idle", "call" (awaiting llm.generate), "returned", "failed"
    coPlan,          \* plan
    coContents,      \* contents
    coAttempt,       \* attempt of the inner loop
    coCalls,         \* the llm.generate calls made so far: tool and prompts
    coTools,         \* tools, the Map being filled
    coError,         \* the error compilePlan threw
    coResult,        \* the CompiledTools compilePlan resolved to
    \* ---- server.ts: the HTTP request handler and log.ts: the request id ----
    rqCurrent,       \* currentRequestId of the log module
    rqReqs,          \* the requests received, in order: what each asks for
                     \* and where its handler stands
    rqLog,           \* the events logEvent has written
    \* ---- index.ts: the shutdown handlers and server.ts: stop ----
    sdHandle,        \* TRUE while httpServer holds its listening handle
    sdConns,         \* open connections of httpServer
    sdSignals,       \* the signals delivered, in order
    sdListeners,     \* once('close') listeners of httpServer, in order
    sdJobs,          \* the tick and microtask queue
    sdRejected,      \* shutdown() promises rejected with nobody handling them
    sdClosed,        \* TRUE once httpServer has emitted 'close'
    sdExit           \* RUNNING, or the code the process exited with

wlVars == <<wlPhase, promptUrls, contents, domains, realFetchCalls, lastFetch>>
plVars == <<plPc, plAttempt, plCalls, plPrompts, plResponse, plLastError, plResult>>

svVars == <<svVerbose, svRunning, svCalls, svHeap, svGlobals, svFetchLog>>

caVars == <<caEnabled, caFiles, caLast, caWritten>>

\* The startup pipeline: cache, fingerprints, fetcher, main.
fnVars == <<fnName, fnInput, fnDone, fnOutput>>

mnVars == <<mnRun, mnPc, mnConfig, mnPrompt, mnFetches, mnOrder, mnContents,
           mnPlan, mnCompiled, mnDomains, mnPort, mnTrace, mnStdout, mnFirst,
           mnReply>>

coVars == <<coPc, coPlan, coContents, coAttempt, coCalls, coTools, coError, coResult>>

rqVars == <<rqCurrent, rqReqs, rqLog>>

sdVars == <<sdHandle, sdConns, sdSignals, sdListeners, sdJobs, sdRejected, sdClosed,
           sdExit>>

suVars == <<caVars, fnVars, mnVars, coVars, rqVars, sdVars>>

vars == <<wlVars, plVars, svVars, suVars>>

-----------------------------------------------------------------------------
(* Bounds *)

MaxUrls == 2        \* longest promptUrls list
MaxTools == 2       \* most tools in a plan the LLM answers with
MaxCalls == 2       \* execute calls in one run of the server
MaxDocs == 3        \* longest FetchedContent list fingerprinted

-----------------------------------------------------------------------------
(* Text helpers *)

BoundedSeq(S, n) == UNION {[1..k -> S] : k \in 0..n}

StartsWith(s, pre) ==
    /\ Len(pre) <= Len(s)
    /\ SubSeq(s, 1, Len(pre)) = pre

\* String.prototype.endsWith
EndsWith(s, suf) ==
    /\ Len(suf) <= Len(s)
    /\ SubSeq(s, Len(s) - Len(suf) + 1, Len(s)) = suf

\* The longest prefix of s that holds no "/" (the authority of a URL).
RECURSIVE UpToSlash(_)
UpToSlash(s) ==
    IF s = <<>> \/ Head(s) = "/" THEN <<>>
    ELSE <<Head(s)>> \o UpToSlash(Tail(s))

-----------------------------------------------------------------------------
(* URLs.  "h://" stands for the special schemes http:// and https://, "f:" *)
(* for a scheme whose URLs parse with an empty host (file:, data:, ...).   *)

HttpScheme == <<"h", ":", "/", "/">>
FileScheme == <<"f", ":">>

EXAMPLE_COM     == <<"e", ".", "c">>                \* example.com
API_EXAMPLE_COM == <<"a", ".", "e", ".", "c">>      \* api.example.com
NOTEXAMPLE_COM  == <<"n", "e", ".", "c">>           \* notexample.com
EVIL_COM        == <<"v", ".", "c">>                \* evil.com

Http(host, path) == HttpScheme \o host \o path

NOT_A_URL  == <<"n", "o">>                          \* "not-a-url"
HTTP_EMPTY == Http(<<>>, <<"/">>)                   \* "https:///": no host, a TypeError
FILE_URL   == FileScheme \o <<"/", "/", "/", "p">>  \* "file:///p": parses, hostname ""

\* URLs the regular expression of extractUrls can yield (they start with
\* http:// or https://), and a string that is no URL at all.
ExtractedUrls ==
    { Http(EXAMPLE_COM, <<"/", "p">>), Http(API_EXAMPLE_COM, <<>>),
      Http(EVIL_COM, <<"/", "s">>), HTTP_EMPTY, NOT_A_URL }

\* What a handler may pass to fetch: anything.
FetchUrls ==
    ExtractedUrls \cup { Http(EXAMPLE_COM, <<>>), Http(NOTEXAMPLE_COM, <<>>),
                         Http(API_EXAMPLE_COM, <<"/", "p">>), FILE_URL, <<>> }

\* new URL(url).hostname: [ok |-> FALSE] when the constructor throws.
URLHostname(url) ==
    IF StartsWith(url, HttpScheme)
    THEN LET host == UpToSlash(SubSeq(url, Len(HttpScheme) + 1, Len(url)))
         IN  IF host = <<>> THEN [ok |-> FALSE, hostname |-> <<>>]
             ELSE [ok |-> TRUE, hostname |-> host]
    ELSE IF StartsWith(url, FileScheme)
    THEN [ok |-> TRUE, hostname |-> <<>>]
    ELSE [ok |-> FALSE, hostname |-> <<>>]

-----------------------------------------------------------------------------
(* whitelist.ts *)

\* extractDomain: the hostname, or null ([isNull |-> TRUE]) for an invalid URL.
ExtractDomain(url) ==
    LET parsed == URLHostname(url)
    IN  IF parsed.ok THEN [isNull |-> FALSE, hostname |-> parsed.hostname]
        ELSE [isNull |-> TRUE, hostname |-> <<>>]

\* JavaScript truthiness of a string | null: null and "" are falsy.
Truthy(d) == ~d.isNull /\ d.hostname # <<>>

DomainMatchesSuffixOnly(hostname, whitelistedDomain) ==
    EndsWith(hostname, whitelistedDomain)

DomainMatches(hostname, whitelistedDomain) ==
    \/ hostname = whitelistedDomain
    \/ EndsWith(hostname, <<".">> \o whitelistedDomain)

\* The two loops of buildWhitelist that fill the Set.
RECURSIVE AddDomains(_, _)
AddDomains(set, urls) ==
    IF urls = <<>> THEN set
    ELSE LET domain == ExtractDomain(Head(urls))
         IN  AddDomains(IF Truthy(domain) THEN set \cup {domain.hostname} ELSE set,
                        Tail(urls))

RECURSIVE AddDiscovered(_, _)
AddDiscovered(set, cs) ==
    IF cs = <<>> THEN set
    ELSE AddDiscovered(AddDomains(set, Head(cs).discoveredUrls), Tail(cs))

BuildWhitelistPromptOnly(pUrls, cs) == AddDomains({}, pUrls)

BuildWhitelist(pUrls, cs) == AddDiscovered(AddDomains({}, pUrls), cs)

\* Whitelist.allows
Allows(doms, url) ==
    LET hostname == ExtractDomain(url)
    IN  IF ~Truthy(hostname) THEN FALSE
        ELSE \E d \in doms : DomainMatches(hostname.hostname, d)

\* Error messages, as <<text before, quoted value, text after>>.
InvalidUrlError(url) == <<"Fetch blocked: invalid URL \"", url, "\"">>
NotInWhitelistError(hostname) ==
    <<"Fetch blocked: domain \"", hostname,
      "\" not in whitelist. Add it to your prompt to allow access.">>

WhitelistedFetchUnchecked(doms, url) ==
    [url |-> url, settled |-> "delegated", error |-> <<"", <<>>, "">>]

\* The function createWhitelistedFetch returns, applied to url: how the call
\* settles ("delegated" = realFetch(url) was invoked and its promise returned).
WhitelistedFetch(doms, url) ==
    LET hostname == ExtractDomain(url)
    IN  IF ~Truthy(hostname)
        THEN [url |-> url, settled |-> "rejected", error |-> InvalidUrlError(url)]
        ELSE IF ~Allows(doms, url)
        THEN [url |-> url, settled |-> "rejected",
              error |-> NotInWhitelistError(hostname.hostname)]
        ELSE [url |-> url, settled |-> "delegated", error |-> <<"", <<>>, "">>]

NoFetch == [url |-> <<>>, settled |-> "none", error |-> <<"", <<>>, "">>]

-----------------------------------------------------------------------------
(* Values of the components a specification does not run. *)

NoResponse == [kind |-> "none", tools |-> <<>>]
NoError == <<"", <<>>>>

PlIdle ==
    /\ plPc = "idle"
    /\ plAttempt = 0
    /\ plCalls = 0
    /\ plPrompts = <<>>
    /\ plResponse = NoResponse
    /\ plLastError = NoError
    /\ plResult = NoResponse

SvIdle ==
    /\ svVerbose = FALSE
    /\ svRunning = 0
    /\ svCalls = <<>>
    /\ svHeap = <<>>
    /\ svGlobals = 0
    /\ svFetchLog = {}

NoFiles == [f \in {} |-> 0]
NoGet == [key |-> <<"", "">>, hit |-> FALSE, entry |-> NoFiles]

CaIdle ==
    /\ caEnabled = FALSE
    /\ caFiles = NoFiles
    /\ caLast = NoGet
    /\ caWritten = NoFiles

FnIdle ==
    /\ fnName = "idle"
    /\ fnInput = <<>>
    /\ fnDone = FALSE
    /\ fnOutput = <<>>

NoCompiled == [tools |-> <<>>, whitelist_domains |-> <<>>]
NoCompileError == [text |-> "", tool |-> "", cause |-> ""]

NoPlan == [tools |-> <<>>]
NoDomains == [made |-> "none", domains |-> {}]
\* No MCP request answered yet.
NoReply == [method |-> "none", name |-> "", result |-> <<>>]

NoFirst == [wrote |-> FALSE, served |-> FALSE, tools |-> <<>>, admits |-> {},
            contents |-> <<>>]

\* The variables of a run of main before the run has done anything.
MnFresh ==
    /\ mnOrder = <<>>
    /\ mnContents = <<>>
    /\ mnPlan = NoPlan
    /\ mnCompiled = NoCompiled
    /\ mnDomains = NoDomains
    /\ mnPort = 0
    /\ mnStdout = <<>>
    /\ mnReply = NoReply

MnIdle ==
    /\ mnRun = 0
    /\ mnPc = "idle"
    /\ mnConfig = <<>>
    /\ mnPrompt = <<>>
    /\ mnFetches = <<>>
    /\ mnTrace = <<>>
    /\ mnFirst = NoFirst
    /\ MnFresh

CoIdle ==
    /\ coPc = "idle"
    /\ coPlan = NoPlan
    /\ coContents = <<>>
    /\ coAttempt = 0
    /\ coCalls = <<>>
    /\ coTools = <<>>
    /\ coError = NoCompileError
    /\ coResult = NoCompiled

\* currentRequestId when no request has set it.
UNDEFINED_ID == 0

RqIdle ==
    /\ rqCurrent = UNDEFINED_ID
    /\ rqReqs = <<>>
    /\ rqLog = {}

\* The process has not exited.
RUNNING == "running"

SdIdle ==
    /\ sdHandle = FALSE
    /\ sdConns = 0
    /\ sdSignals = <<>>
    /\ sdListeners = <<>>
    /\ sdJobs = <<>>
    /\ sdRejected = {}
    /\ sdClosed = FALSE
    /\ sdExit = RUNNING

SuIdle ==
    /\ CaIdle
    /\ FnIdle
    /\ MnIdle
    /\ CoIdle
    /\ RqIdle
    /\ SdIdle

-----------------------------------------------------------------------------
(* The whitelist as a state machine: build it, then call the gated fetch. *)

\* discoveredUrls lists: none, a new host, a malformed URL beside a new host,
\* the same host twice.
DiscoveredSamples ==
    { <<>>,
      <<Http(API_EXAMPLE_COM, <<>>)>>,
      <<HTTP_EMPTY, Http(EVIL_COM, <<"/", "s">>)>>,
      <<Http(EXAMPLE_COM, <<"/", "p">>), Http(EXAMPLE_COM, <<"/", "p">>)>> }

ContentSamples ==
    { [url |-> Http(EXAMPLE_COM, <<"/", "p">>), discoveredUrls |-> d] :
        d \in DiscoveredSamples }

ContentsSamples ==
    {<<>>} \cup { <<c>> : c \in ContentSamples }
           \cup { <<c1, c2>> : c1 \in ContentSamples,
                               c2 \in {c \in ContentSamples : Len(c.discoveredUrls) = 1} }

WlInit ==
    /\ wlPhase = "inputs"
    /\ promptUrls \in BoundedSeq(ExtractedUrls, MaxUrls)
    /\ contents \in ContentsSamples
    /\ domains = {}
    /\ realFetchCalls = {}
    /\ lastFetch = NoFetch
    /\ PlIdle
    /\ SvIdle
    /\ SuIdle

\* buildWhitelist(promptUrls, contents)
WlBuild ==
    /\ wlPhase = "inputs"
    /\ wlPhase' = "built"
    /\ domains' = BuildWhitelist(promptUrls, contents)
    /\ UNCHANGED <<promptUrls, contents, realFetchCalls, lastFetch>>
    /\ UNCHANGED <<plVars, svVars, suVars>>

\* One call of the function createWhitelistedFetch(whitelist, realFetch) returned.
WlFetch(url) ==
    /\ wlPhase = "built"
    /\ LET r == WhitelistedFetch(domains, url)
       IN  /\ lastFetch' = r
           /\ realFetchCalls' =
                IF r.settled = "delegated" THEN realFetchCalls \cup {url}
                ELSE realFetchCalls
    /\ UNCHANGED <<wlPhase, promptUrls, contents, domains>>
    /\ UNCHANGED <<plVars, svVars, suVars>>

WlNext ==
    \/ WlBuild
    \/ \E url \in FetchUrls : WlFetch(url)

SpecWhitelist == WlInit /\ [][WlNext]_vars

-----------------------------------------------------------------------------
(* Claims about the whitelist *)

\* The whitelist rule stated on its own: h is d, or h is p.d for some text p.
HostAdmitted(h, d) ==
    \/ h = d
    \/ \E k \in 1..Len(h) : h[k] = "." /\ SubSeq(h, k + 1, Len(h)) = d

\* The hostnames of the well-formed URLs of a list.
HostnamesOf(urls) ==
    { URLHostname(urls[i]).hostname :
        i \in { j \in 1..Len(urls) : URLHostname(urls[j]).ok } }

NotInWhitelistText == "\" not in whitelist. Add it to your prompt to allow access."
InvalidUrlText == "Fetch blocked: invalid URL \""

\* C1 (as stated): realFetch is invoked only with URLs the whitelist allows; a
\* parseable URL whose host is not allowed is rejected with an error naming the
\* host and containing "not in whitelist", an unparsable URL with "Fetch
\* blocked: invalid URL", and in both cases realFetch is not invoked.
C1_AsStated ==
    /\ \A u \in realFetchCalls : Allows(domains, u)
    /\ lastFetch.settled # "none" =>
         LET parsed == URLHostname(lastFetch.url)
         IN  /\ (parsed.ok /\ ~Allows(domains, lastFetch.url)) =>
                  /\ lastFetch.settled = "rejected"
                  /\ lastFetch.error[2] = parsed.hostname
                  /\ lastFetch.error[3] = NotInWhitelistText
                  /\ lastFetch.url \notin realFetchCalls
             /\ ~parsed.ok =>
                  /\ lastFetch.settled = "rejected"
                  /\ lastFetch.error[1] = InvalidUrlText
                  /\ lastFetch.url \notin realFetchCalls

\* C1 (amended): realFetch is invoked only with URLs the whitelist allows; a
\* parseable URL with a non-empty host that is not allowed is rejected with an
\* error naming the host and containing "not in whitelist"; a URL that is
\* unparsable or parses with an empty host is rejected with "Fetch blocked:
\* invalid URL"; in both cases realFetch is not invoked.
C1_GatedFetch ==
    /\ \A u \in realFetchCalls : Allows(domains, u)
    /\ lastFetch.settled # "none" =>
         LET parsed == URLHostname(lastFetch.url)
         IN  /\ (parsed.ok /\ parsed.hostname # <<>> /\ ~Allows(domains, lastFetch.url)) =>
                  /\ lastFetch.settled = "rejected"
                  /\ lastFetch.error[2] = parsed.hostname
                  /\ lastFetch.error[3] = NotInWhitelistText
                  /\ lastFetch.url \notin realFetchCalls
             /\ (~parsed.ok \/ parsed.hostname = <<>>) =>
                  /\ lastFetch.settled = "rejected"
                  /\ lastFetch.error[1] = InvalidUrlText
                  /\ lastFetch.error[2] = lastFetch.url
                  /\ lastFetch.url \notin realFetchCalls

\* A blocked fetch of evil.com after an allowed fetch went through.
C1_Witness ==
    /\ domains = {EXAMPLE_COM}
    /\ lastFetch.url = Http(EVIL_COM, <<"/", "s">>)
    /\ lastFetch.settled = "rejected"
    /\ realFetchCalls = {Http(API_EXAMPLE_COM, <<"/", "p">>)}

\* C2: allows(u) is true iff u parses and its hostname equals some member d or
\* ends with "." + d; api.example.com does not admit example.com, and
\* notexample.com is not admitted by example.com.
C2_AllowsRule ==
    wlPhase = "built" =>
        /\ \A u \in FetchUrls :
             Allows(domains, u) <=>
                /\ URLHostname(u).ok
                /\ \E d \in domains : HostAdmitted(URLHostname(u).hostname, d)
        /\ (domains = {API_EXAMPLE_COM} => ~Allows(domains, Http(EXAMPLE_COM, <<>>)))
        /\ (domains = {EXAMPLE_COM} =>
              /\ ~Allows(domains, Http(NOTEXAMPLE_COM, <<>>))
              /\ Allows(domains, Http(API_EXAMPLE_COM, <<>>)))

\* Only example.com is whitelisted and a fetch of notexample.com was refused.
C2_Witness ==
    /\ domains = {EXAMPLE_COM}
    /\ lastFetch.url = Http(NOTEXAMPLE_COM, <<>>)
    /\ lastFetch.settled = "rejected"

\* C3: the domain set buildWhitelist returns is exactly the hostnames of the
\* well-formed prompt URLs together with those of the well-formed
\* discoveredUrls of every content; malformed URLs are skipped.
C3_WhitelistClosure ==
    wlPhase = "built" =>
        domains = HostnamesOf(promptUrls) \cup
                  UNION { HostnamesOf(contents[i].discoveredUrls) : i \in 1..Len(contents) }

\* A malformed prompt URL was skipped and a host came from discoveredUrls alone.
C3_Witness ==
    /\ wlPhase = "built"
    /\ promptUrls = <<HTTP_EMPTY, Http(EXAMPLE_COM, <<"/", "p">>)>>
    /\ Len(contents) = 2
    /\ domains = {EXAMPLE_COM, EVIL_COM, API_EXAMPLE_COM}

-----------------------------------------------------------------------------
(* engine/planner.ts.  What JSON.parse yields is untyped: a field of a tool  *)
(* is any JSON value or absent.  A value is [t, s]: its typeof-like kind t   *)
(* and s, the text String(value) gives ("a1" for the string "a1" and for the *)
(* array ["a1"], "true" for true, "5" for 5).                                *)

JUndefined == [t |-> "undefined", s |-> <<>>]
JNull      == [t |-> "null", s |-> <<>>]
JString(cs) == [t |-> "string", s |-> cs]
JTrue      == [t |-> "boolean", s |-> <<"t", "r", "u", "e">>]
JFalse     == [t |-> "boolean", s |-> <<"f", "a", "l", "s", "e">>]
JArrayOf(cs) == [t |-> "array", s |-> cs]       \* a one-element array [cs], or []
JObject    == [t |-> "object", s |-> <<"[", "o", "]">>]

\* !value
Falsy(v) ==
    \/ v.t \in {"undefined", "null"}
    \/ v.t = "string" /\ v.s = <<>>
    \/ v = JFalse

\* typeof value === "object"
TypeofObject(v) == v.t \in {"object", "array", "null"}

Lower == {"a", "b", "c", "d", "e", "f", "g", "h", "i", "j", "k", "l", "m",
          "n", "o", "p", "q", "r", "s", "t", "u", "v", "w", "x", "y", "z"}
Digit == {"0", "1", "2", "3", "4", "5", "6", "7", "8", "9"}

\* /^[a-z][a-z0-9_]*$/ on a text
ToolNamePattern(cs) ==
    /\ Len(cs) >= 1
    /\ cs[1] \in Lower
    /\ \A i \in 2..Len(cs) : cs[i] \in Lower \cup Digit \cup {"_"}

\* TOOL_NAME_PATTERN.test(value): RegExp.prototype.test converts its argument
\* with String(value) first.
ToolNamePatternTest(v) == ToolNamePattern(v.s)

\* Set.prototype.has / add compare by SameValueZero: primitives by value,
\* objects (arrays) by identity.  An entry is <<value, identity>>, identity
\* being the index of the tool the object belongs to, 0 for a primitive.
SetEntry(v, i) == <<v, IF v.t \in {"array", "object"} THEN i ELSE 0>>

\* Endpoint texts: "GET https://api.example.com/p" and the like.
Endpoint(verb, url) == verb \o url
GET == <<"G", " ">>

\* endpoint.match(/https?:\/\/[^\s]+/): the first URL of the text, <<>> if none.
RECURSIVE UpToSpace(_)
UpToSpace(cs) ==
    IF cs = <<>> \/ Head(cs) = " " THEN <<>>
    ELSE <<Head(cs)>> \o UpToSpace(Tail(cs))

RECURSIVE UrlMatch(_)
UrlMatch(cs) ==
    IF Len(cs) <= Len(HttpScheme) THEN <<>>
    ELSE IF StartsWith(cs, HttpScheme) /\ cs[Len(HttpScheme) + 1] # " "
    THEN UpToSpace(cs)
    ELSE UrlMatch(Tail(cs))

Tool(name, description, input_schema, implementation_notes, needs_network, endpoints_used) ==
    [name |-> name, description |-> description,
     input_schema |-> input_schema, implementation_notes |-> implementation_notes,
     needs_network |-> needs_network, endpoints_used |-> endpoints_used]

\* endpoints_used: [isArray, items]
Endpoints(items) == [isArray |-> TRUE, items |-> items]
NotAnArray == [isArray |-> FALSE, items |-> <<>>]

NAME_A == <<"a", "1">>
NAME_B == <<"b", "_">>
TEXT   == <<"d">>

PureTool == Tool(JString(NAME_A), JString(TEXT), JObject, JString(TEXT), JFalse, Endpoints(<<>>))
NetTool(eps) == Tool(JString(NAME_B), JString(TEXT), JObject, JString(TEXT), JTrue, Endpoints(eps))

EP_ALLOWED == Endpoint(GET, Http(API_EXAMPLE_COM, <<"/", "p">>))
EP_EVIL    == Endpoint(GET, Http(EVIL_COM, <<"/", "s">>))
EP_TWO     == Endpoint(GET, Http(EXAMPLE_COM, <<>>)) \o <<" ">> \o Http(EVIL_COM, <<>>)
EP_NO_URL  == <<"G", " ", "x">>

\* The tools an answer of the LLM may hold: two well-formed ones, and tools
\* that differ from a well-formed one in one field.
ToolSamples ==
    { PureTool, NetTool(<<EP_ALLOWED>>), NetTool(<<EP_NO_URL, EP_EVIL>>),
      NetTool(<<EP_TWO>>),
      [PureTool EXCEPT !.endpoints_used = Endpoints(<<EP_EVIL>>)],
      [PureTool EXCEPT !.name = JString(<<>>)],
      [PureTool EXCEPT !.name = JString(<<"A", "1">>)],
      [PureTool EXCEPT !.name = JArrayOf(NAME_A)],
      [PureTool EXCEPT !.description = JString(<<>>)],
      [PureTool EXCEPT !.input_schema = JNull],
      [PureTool EXCEPT !.implementation_notes = JUndefined],
      [PureTool EXCEPT !.needs_network = JString(JTrue.s)],
      [PureTool EXCEPT !.endpoints_used = NotAnArray] }

\* What llm.generate does: it throws, or answers a text.  A text is kept as
\* what extractJSON and JSON.parse make of it: "garbage" does not parse, "null"
\* and "number" parse to a non-object, "noTools" has no tools field,
\* "toolsNotArray" a tools field that is no array, "plan" an array of tools.
Responses ==
    { [kind |-> k, tools |-> <<>>] :
        k \in {"throw", "garbage", "null", "number", "noTools", "toolsNotArray"} }
    \cup { [kind |-> "plan", tools |-> ts] : ts \in BoundedSeq(ToolSamples, MaxTools) }

Ok == [ok |-> TRUE, error |-> NoError]
Err(text, subject) == [ok |-> FALSE, error |-> <<text, subject>>]

\* The body of the for loop of validatePlan for one tool; names is the Set.
ValidateTool(tool, names, i) ==
    IF Falsy(tool.name) THEN Err("Invalid plan: tool missing 'name'", <<>>)
    ELSE IF ~ToolNamePatternTest(tool.name) THEN Err("Invalid tool name", tool.name.s)
    ELSE IF SetEntry(tool.name, i) \in names THEN Err("Duplicate tool name", tool.name.s)
    ELSE IF Falsy(tool.description) THEN Err("description is required", tool.name.s)
    ELSE IF Falsy(tool.input_schema) \/ ~TypeofObject(tool.input_schema)
    THEN Err("input_schema is required", tool.name.s)
    ELSE IF Falsy(tool.implementation_notes)
    THEN Err("implementation_notes is required", tool.name.s)
    ELSE IF tool.needs_network.t # "boolean"
    THEN Err("needs_network must be a boolean", tool.name.s)
    ELSE IF ~tool.endpoints_used.isArray
    THEN Err("endpoints_used must be an array", tool.name.s)
    ELSE Ok

RECURSIVE ValidateTools(_, _, _)
ValidateTools(tools, names, i) ==
    IF i > Len(tools) THEN Ok
    ELSE LET r == ValidateTool(tools[i], names, i)
         IN  IF ~r.ok THEN r
             ELSE ValidateTools(tools, names \cup {SetEntry(tools[i].name, i)}, i + 1)

\* validatePlan(parsed), for what JSON.parse returned
ValidatePlan(parsed) ==
    IF parsed.kind = "null" THEN Err("TypeError: Cannot read properties of null", <<>>)
    ELSE IF parsed.kind \in {"number", "noTools", "toolsNotArray"}
    THEN Err("Invalid plan: missing or non-array 'tools' field", <<>>)
    ELSE IF Len(parsed.tools) = 0 THEN Err("Invalid plan: 'tools' array is empty", <<>>)
    ELSE ValidateTools(parsed.tools, {}, 1)

\* The inner loop of validatePlanWhitelist over the endpoints of one tool.
RECURSIVE ValidateEndpoints(_, _, _)
ValidateEndpoints(tool, eps, doms) ==
    IF eps = <<>> THEN Ok
    ELSE LET urlMatch == UrlMatch(Head(eps))
         IN  IF urlMatch # <<>> /\ ~Allows(doms, urlMatch)
             THEN Err("uses endpoint whose domain is not in the whitelist", tool.name.s)
             ELSE ValidateEndpoints(tool, Tail(eps), doms)

\* validatePlanWhitelist(plan, whitelist)
RECURSIVE ValidatePlanWhitelist(_, _)
ValidatePlanWhitelist(tools, doms) ==
    IF tools = <<>> THEN Ok
    ELSE LET tool == Head(tools)
             r == IF Falsy(tool.needs_network) THEN Ok
                  ELSE ValidateEndpoints(tool, tool.endpoints_used.items, doms)
         IN  IF ~r.ok THEN r ELSE ValidatePlanWhitelist(Tail(tools), doms)

\* One pass of the loop body after the response arrived: JSON.parse,
\* validatePlan, validatePlanWhitelist.
CheckResponse(response, doms) ==
    IF response.kind = "garbage"
    THEN Err("Failed to parse plan JSON from LLM response", <<>>)
    ELSE LET v == ValidatePlan(response)
         IN  IF ~v.ok THEN v ELSE ValidatePlanWhitelist(response.tools, doms)

-----------------------------------------------------------------------------
(* generatePlan as a state machine: one step per llm.generate call, one per *)
(* pass over its response.                                                  *)

WlIdle ==
    /\ wlPhase = "built"
    /\ promptUrls = <<>>
    /\ contents = <<>>
    /\ realFetchCalls = {}
    /\ lastFetch = NoFetch

PlInit ==
    /\ WlIdle
    /\ domains \in {{}, {EXAMPLE_COM}}
    /\ plPc = "call"
    /\ plAttempt = 0
    /\ plCalls = 0
    /\ plPrompts = <<>>
    /\ plResponse = NoResponse
    /\ plLastError = NoError
    /\ plResult = NoResponse
    /\ SvIdle
    /\ SuIdle

\* buildUserPrompt(prompt, contents, whitelist): the prompt, the documents and
\* the whitelist's domains (or the no-domain notice).
BuildUserPrompt(doms) ==
    [prompt |-> "prompt", contents |-> <<>>, domains |-> doms, feedback |-> NoError]

\* A retry that feeds the last failure back to the LLM.
GenerateArgsWithFeedback(userPrompt, lastError) ==
    [system |-> "SYSTEM_PROMPT", user |-> [userPrompt EXCEPT !.feedback = lastError]]

\* The arguments of llm.generate(SYSTEM_PROMPT, userPrompt) in the loop.
GenerateArgs(userPrompt, lastError) ==
    [system |-> "SYSTEM_PROMPT", user |-> userPrompt]

\* response = await llm.generate(SYSTEM_PROMPT, userPrompt), and its catch
PlGenerate(response) ==
    /\ plPc = "call"
    /\ plAttempt < 2
    /\ plCalls' = plCalls + 1
    /\ plPrompts' = Append(plPrompts, GenerateArgs(BuildUserPrompt(domains), plLastError))
    /\ plResponse' = response
    /\ IF response.kind = "throw"
       THEN /\ plPc' = "failed"
            /\ plResult' = [kind |-> "error", tools |-> <<>>]
            /\ plLastError' = <<"LLM error during planning", <<>>>>
       ELSE /\ plPc' = "process"
            /\ UNCHANGED <<plResult, plLastError>>
    /\ UNCHANGED <<plAttempt, wlVars, svVars, suVars>>

\* The rest of the loop body: return parsed, continue, or throw lastError.
PlProcess ==
    /\ plPc = "process"
    /\ LET r == CheckResponse(plResponse, domains)
       IN  IF r.ok
           THEN /\ plPc' = "returned"
                /\ plResult' = plResponse
                /\ UNCHANGED <<plAttempt, plLastError, plResponse>>
           ELSE /\ plLastError' = r.error
                /\ IF plAttempt = 0
                   THEN /\ plPc' = "call"
                        /\ plAttempt' = plAttempt + 1
                        /\ plResponse' = NoResponse
                        /\ UNCHANGED plResult
                   ELSE /\ plPc' = "failed"
                        /\ plResult' = [kind |-> "error", tools |-> <<>>]
                        /\ UNCHANGED <<plAttempt, plResponse>>
    /\ UNCHANGED <<plCalls, plPrompts, wlVars, svVars, suVars>>

PlNext ==
    \/ \E response \in Responses : PlGenerate(response)
    \/ PlProcess

SpecPlanner == PlInit /\ [][PlNext]_vars

-----------------------------------------------------------------------------
(* Claims about the planner *)

\* What the claims call a well-formed tool and plan, read leniently: the name
\* is judged by its text, an array counts as an object.
WellFormedTool(tool) ==
    /\ ToolNamePattern(tool.name.s)
    /\ ~Falsy(tool.description)
    /\ ~Falsy(tool.implementation_notes)
    /\ tool.input_schema.t \in {"object", "array"}
    /\ tool.needs_network.t = "boolean"
    /\ tool.endpoints_used.isArray

WellFormedPlan(plan) ==
    /\ plan.kind = "plan"
    /\ Len(plan.tools) >= 1
    /\ \A i \in 1..Len(plan.tools) : WellFormedTool(plan.tools[i])
    /\ \A i, j \in 1..Len(plan.tools) :
         i # j => plan.tools[i].name # plan.tools[j].name

\* C10: every plan generatePlan returns has a non-empty tools list in which
\* every tool name matches ^[a-z][a-z0-9_]*$ and no two tools have the same
\* name, and every tool has a non-empty description, non-empty
\* implementation_notes, an object input_schema, a boolean needs_network and an
\* array endpoints_used; a response failing any of these on both attempts makes
\* generatePlan fail instead of returning.
C10_AcceptedPlanWellFormed ==
    /\ plPc = "returned" => WellFormedPlan(plResult)
    /\ (plPc \in {"returned", "failed"} /\ plCalls = 2 /\ ~WellFormedPlan(plResponse))
          => plPc = "failed"

\* C21: generatePlan calls llm.generate at most twice, each time with the same
\* system and user prompt; a first response that passes every check is
\* returned after one call; a first response that fails parsing, validatePlan
\* or validatePlanWhitelist is followed by exactly one more call, whose
\* response is returned when it passes and whose failure is the error
\* generatePlan throws when it does not.
C21_BlindRetryOnce ==
    /\ plCalls <= 2
    /\ Len(plPrompts) = plCalls
    /\ \A i \in 1..Len(plPrompts) : plPrompts[i] = plPrompts[1]
    /\ plCalls = 2 => plAttempt = 1 /\ plLastError # NoError
    /\ (plAttempt = 1 /\ plPc # "call") => plCalls = 2
    /\ (plPc = "returned" /\ plAttempt = 0) => plCalls = 1
    /\ plPc = "returned" =>
          /\ plResult = plResponse
          /\ CheckResponse(plResponse, domains).ok
    /\ (plPc = "failed" /\ plResponse.kind # "throw") =>
          /\ plCalls = 2
          /\ ~CheckResponse(plResponse, domains).ok
          /\ plLastError = CheckResponse(plResponse, domains).error

C21_Witness ==
    /\ plPc = "returned"
    /\ plCalls = 2
    /\ plLastError[1] = "uses endpoint whose domain is not in the whitelist"

\* The http(s) URLs of an endpoint text, each up to the next white space.
RECURSIVE UrlsOf(_)
UrlsOf(cs) ==
    IF Len(cs) <= Len(HttpScheme) THEN {}
    ELSE IF StartsWith(cs, HttpScheme) /\ cs[Len(HttpScheme) + 1] # " "
    THEN {UpToSpace(cs)} \cup UrlsOf(SubSeq(cs, Len(UpToSpace(cs)) + 1, Len(cs)))
    ELSE UrlsOf(Tail(cs))

\* C23: in every plan generatePlan returns, every http(s) URL found in any
\* entry of endpoints_used of a tool with needs_network true, the later URLs
\* of an entry included, has a host the whitelist allows.
C23_EveryEndpointUrlAllowed ==
    plPc = "returned" =>
        \A i \in 1..Len(plResult.tools) :
            ~Falsy(plResult.tools[i].needs_network) =>
                \A k \in 1..Len(plResult.tools[i].endpoints_used.items) :
                    \A u \in UrlsOf(plResult.tools[i].endpoints_used.items[k]) :
                        Allows(domains, u)

-----------------------------------------------------------------------------
(* engine/executor.ts and engine/sandbox.ts: serving tool calls.

   Node runs every callback of the process on one thread, to completion:
   svRunning names the call whose JavaScript is on the stack.  A handler is
   the body of an async function; it is modelled as a sequence of operations
   and runs synchronously from one await to the next. *)

Op(op, url) == [op |-> op, url |-> url]

URL_ALLOWED == Http(EXAMPLE_COM, <<"/">>)
URL_EVIL    == Http(EVIL_COM, <<"/">>)

\* compiled.tools: tool name -> handler_code and needs_network.
CompiledTools ==
    [ hello       |-> [needs_network |-> FALSE,
                       handler_code  |-> <<Op("return", <<>>)>>],
      mutate      |-> [needs_network |-> FALSE,
                       handler_code  |-> <<Op("mutateArgs", <<>>), Op("return", <<>>)>>],
      boom        |-> [needs_network |-> FALSE,
                       handler_code  |-> <<Op("throwError", <<>>)>>],
      odd         |-> [needs_network |-> FALSE,
                       handler_code  |-> <<Op("throwNullProto", <<>>)>>],
      number      |-> [needs_network |-> FALSE,
                       handler_code  |-> <<Op("returnNumber", <<>>)>>],
      bigint      |-> [needs_network |-> FALSE,
                       handler_code  |-> <<Op("returnBigInt", <<>>)>>],
      spin        |-> [needs_network |-> FALSE,
                       handler_code  |-> <<Op("spin", <<>>)>>],
      never       |-> [needs_network |-> FALSE,
                       handler_code  |-> <<Op("awaitNever", <<>>)>>],
      await_spin  |-> [needs_network |-> FALSE,
                       handler_code  |-> <<Op("await", <<>>), Op("spin", <<>>)>>],
      await_fetch |-> [needs_network |-> TRUE,
                       handler_code  |-> <<Op("await", <<>>), Op("fetch", URL_ALLOWED),
                                           Op("return", <<>>)>>],
      set_global  |-> [needs_network |-> FALSE,
                       handler_code  |-> <<Op("setGlobal", <<>>), Op("return", <<>>)>>],
      get_global  |-> [needs_network |-> FALSE,
                       handler_code  |-> <<Op("getGlobal", <<>>), Op("return", <<>>)>>],
      pure_fetch  |-> [needs_network |-> FALSE,
                       handler_code  |-> <<Op("fetch", URL_ALLOWED), Op("return", <<>>)>>],
      net_fetch   |-> [needs_network |-> TRUE,
                       handler_code  |-> <<Op("fetch", URL_ALLOWED), Op("return", <<>>)>>],
      net_blocked |-> [needs_network |-> TRUE,
                       handler_code  |-> <<Op("fetch", URL_EVIL), Op("return", <<>>)>>] ]

UNKNOWN_TOOL == "nonexistent"

ToolNames == DOMAIN CompiledTools \cup {UNKNOWN_TOOL}

\* compiled.tools.get(toolName): undefined for a name that is not a key.
ToolsHas(toolName) == toolName \in DOMAIN CompiledTools

\* ---- values --------------------------------------------------------------

\* An object on the heap.  An args value is a top object {name, nested} whose
\* nested property refers to a second object {value}.
Obj(name, nested, value) == [name |-> name, nested |-> nested, value |-> value]

\* The args of the requests made: { name: "test", nested: { value: 1 } }.
ArgsSamples == { [name |-> "test", value |-> 1] }

\* The args value a reference denotes, read through the heap.
ArgsValue(heap, ref) ==
    [name |-> heap[ref].name, value |-> heap[heap[ref].nested].value]

\* Allocating the caller's args: the nested object, then the top object.
AllocArgs(heap, a) ==
    [heap |-> heap \o <<Obj("", 0, a.value), Obj(a.name, Len(heap) + 1, 0)>>,
     ref  |-> Len(heap) + 2]

\* A copy that duplicates the top object only; the nested object is shared.
ShallowCopy(heap, ref) ==
    [heap |-> Append(heap, heap[ref]), ref |-> Len(heap) + 1]

\* structuredClone(args): a copy of every object reachable from args.
StructuredClone(heap, ref) ==
    [heap |-> heap \o <<heap[heap[ref].nested],
                        [heap[ref] EXCEPT !.nested = Len(heap) + 1]>>,
     ref  |-> Len(heap) + 2]

\* A ToolCallResult, or whatever else a handler returned.  isError is absent
\* from what the sample handlers return; extra is a further property.
Result(kind, content, isError, extra) ==
    [kind |-> kind, content |-> content, isError |-> isError, extra |-> extra]

NoValue == Result("none", <<>>, FALSE, "none")

\* An error value: the realm whose Error constructor made it ("none" for an
\* object that is not an Error at all), and its message.
ErrorValue(realm, message) == [realm |-> realm, message |-> message]

NoThrown == ErrorValue("", "")

HANDLER_TIMED_OUT     == ErrorValue("host", "Handler timed out")
SCRIPT_TIMED_OUT      == ErrorValue("host", "Script execution timed out")
MUST_RETURN_CONTENT   == ErrorValue("host", "Handler must return {content: [...]}")
CANNOT_SERIALIZE      == ErrorValue("host", "Do not know how to serialize a BigInt")

\* error instanceof Error, evaluated in the host realm: an Error made by the
\* Error constructor of a vm context is not an instance of the host's Error.
InstanceofError(e) == e.realm = "host"

\* String(error): throws for an object with no toString (null prototype).
StringThrows(e) == e.realm = "none"

StringOf(e) == "Error: " \o e.message

\* `Unknown tool: ${toolName}` with isError: true, with the flag dropped.
UnknownToolResultNoFlag(toolName) ==
    Result("result", <<"Unknown tool: ", toolName>>, FALSE, "none")

\* { content: [{type: "text", text: `Unknown tool: ${toolName}`}], isError: true }
UnknownToolResult(toolName) ==
    Result("result", <<"Unknown tool: ", toolName>>, TRUE, "none")

\* { content: [{type: "text", text: `Handler error: ${message}`}], isError: true }
HandlerErrorResult(message) ==
    Result("result", <<"Handler error: ", message>>, TRUE, "none")

\* The gated fetch a context is given, under the names the handler can use:
\* the global fetch, the global fetchFn and, through the wrapper's second
\* parameter, the local fetch.  runHandler(code, args) is not told whether the
\* tool needs the network.
ContextFetchBindings == {"fetch", "fetchFn"}

\* logEvent(event, data) throws: only with verbose output on, when
\* JSON.stringify meets a BigInt in data.
LogEventThrows(verbose, data) == verbose /\ data.extra = "bigint"

\* ---- a call ---------------------------------------------------------------

\* ex: execute's promise ("pending", "resolved", "rejected"); result: what it
\* resolved to.  rh: runHandler's promise, with rhValue / rhError.  h: the
\* handler ("none", "awaiting", "never", "spinning", "killed", "returned",
\* "thrown"), hpc its next operation, hValue / hError what it returned or
\* threw.  inVm: script.runInContext has not returned yet.  fetched: the
\* outcome of the fetch the handler awaits.  seen: what the handler read from
\* the host's built-in objects.
NewCall(toolName, a, argsRef, inputRef) ==
    [ tool |-> toolName, args |-> a, argsRef |-> argsRef, inputArgs |-> inputRef,
      ex |-> "pending", result |-> NoValue,
      rh |-> "none", rhValue |-> NoValue, rhError |-> NoThrown,
      h |-> "none", hpc |-> 1, hValue |-> NoValue, hError |-> NoThrown,
      inVm |-> FALSE, bindings |-> {}, fetched |-> "none", seen |-> "" ]

\* The world a handler acts on.
World(calls, heap, globals, fetchLog) ==
    [calls |-> calls, heap |-> heap, globals |-> globals, fetchLog |-> fetchLog]

\* The handler of call i runs from its next operation to its next await, or
\* to its end.
RECURSIVE RunSegment(_, _, _)
RunSegment(w, i, doms) ==
    LET c  == w.calls[i]
        o  == CompiledTools[c.tool].handler_code[c.hpc]
        nx == [c EXCEPT !.hpc = c.hpc + 1]
        top == w.heap[c.inputArgs]
    IN CASE o.op = "mutateArgs" ->
              RunSegment([w EXCEPT !.calls[i] = nx,
                                   !.heap[c.inputArgs].name = "mutated",
                                   !.heap[top.nested].value = 999], i, doms)
         [] o.op = "setGlobal" ->
              RunSegment([w EXCEPT !.calls[i] = nx, !.globals = i], i, doms)
         [] o.op = "getGlobal" ->
              RunSegment([w EXCEPT !.calls[i] = [nx EXCEPT !.seen = ToString(w.globals)]],
                         i, doms)
         [] o.op = "await" ->
              [w EXCEPT !.calls[i] = [nx EXCEPT !.h = "awaiting"]]
         [] o.op = "awaitNever" ->
              [w EXCEPT !.calls[i] = [nx EXCEPT !.h = "never"]]
         [] o.op = "spin" ->
              [w EXCEPT !.calls[i] = [c EXCEPT !.h = "spinning"]]
         [] o.op = "fetch" ->
              IF "fetch" \notin c.bindings
              THEN [w EXCEPT !.calls[i] =
                      [c EXCEPT !.h = "thrown",
                                !.hError = ErrorValue("sandbox", "fetch is not defined")]]
              ELSE LET f == WhitelistedFetch(doms, o.url)
                   IN IF f.settled = "delegated"
                      THEN [w EXCEPT !.calls[i] = [nx EXCEPT !.h = "awaiting",
                                                             !.fetched = "resolved"],
                                     !.fetchLog = @ \cup {<<i, o.url>>}]
                      ELSE [w EXCEPT !.calls[i] = [nx EXCEPT !.h = "awaiting",
                                                             !.fetched = "rejected"]]
         [] o.op = "throwError" ->
              [w EXCEPT !.calls[i] = [c EXCEPT !.h = "thrown",
                                               !.hError = ErrorValue("sandbox", "boom")]]
         [] o.op = "throwNullProto" ->
              [w EXCEPT !.calls[i] = [c EXCEPT !.h = "thrown",
                                               !.hError = ErrorValue("none", "")]]
         [] o.op = "returnNumber" ->
              [w EXCEPT !.calls[i] = [c EXCEPT !.h = "returned",
                                               !.hValue = Result("number", <<>>, FALSE, "none")]]
         [] o.op = "returnBigInt" ->
              [w EXCEPT !.calls[i] =
                  [c EXCEPT !.h = "returned",
                            !.hValue = Result("result", <<"big", "">>, FALSE, "bigint")]]
         [] OTHER ->  \* return { content: [{type: "text", text: args.name + seen}] }
              [w EXCEPT !.calls[i] =
                  [c EXCEPT !.h = "returned",
                            !.hValue = Result("result", <<top.name, c.seen>>, FALSE, "none")]]

\* The handler resumes after an await; a rejected fetch it awaited is thrown
\* at the await, and the sample handlers do not catch it.
ResumeSegment(w, i, doms) ==
    LET c == [w.calls[i] EXCEPT !.fetched = "none"]
    IN IF w.calls[i].fetched = "rejected"
       THEN [w EXCEPT !.calls[i] =
               [c EXCEPT !.h = "thrown",
                         !.hError = ErrorValue("host", "Fetch blocked")]]
       ELSE RunSegment([w EXCEPT !.calls[i] = c], i, doms)

\* execute's catch block, entered with what runHandler (or the try block)
\* threw: the call resolves to a Handler error result, unless String(error)
\* throws in turn, which rejects execute's promise.
Catch(c, error) ==
    IF InstanceofError(error)
    THEN [c EXCEPT !.ex = "resolved", !.result = HandlerErrorResult(error.message)]
    ELSE IF StringThrows(error)
         THEN [c EXCEPT !.ex = "rejected"]
         ELSE [c EXCEPT !.ex = "resolved",
                        !.result = HandlerErrorResult(StringOf(error))]

\* runHandler's promise rejects with error; execute, awaiting it, catches.
RunHandlerRejects(c, error) ==
    Catch([c EXCEPT !.rh = "rejected", !.rhError = error], error)

\* The handler has returned or thrown.  If Promise.race has not settled yet it
\* settles with that outcome, in the same turn of the event loop: runHandler
\* checks the shape of a returned value; execute logs executor_end and returns
\* the value.
RaceSettled(c, verbose) ==
    IF c.ex # "pending" \/ c.h \notin {"returned", "thrown"}
    THEN c
    ELSE IF c.h = "thrown"
    THEN RunHandlerRejects(c, c.hError)
    ELSE IF c.hValue.kind # "result"
         THEN RunHandlerRejects(c, MUST_RETURN_CONTENT)
         ELSE LET r == [c EXCEPT !.rh = "resolved", !.rhValue = c.hValue]
              IN IF LogEventThrows(verbose, c.hValue)
                 THEN Catch(r, CANNOT_SERIALIZE)
                 ELSE [r EXCEPT !.ex = "resolved", !.result = c.hValue]

\* ---- the server as a state machine ----------------------------------------

SvInit ==
    /\ WlIdle
    /\ domains = {EXAMPLE_COM}
    /\ PlIdle
    /\ SuIdle
    /\ svVerbose \in BOOLEAN
    /\ svRunning = 0
    /\ svCalls = <<>>
    /\ svHeap = <<>>
    /\ svGlobals = 0
    /\ svFetchLog = {}

\* The stack is empty again unless the handler of call i is spinning on it.
StackAfter(c, i) == IF c.h = "spinning" THEN i ELSE 0

\* execute(toolName, args), up to its first await that has to wait: the
\* lookup, and for a known tool runHandler's context, the clone of args, and
\* the handler's first segment inside script.runInContext.
Execute(toolName, a) ==
    /\ svRunning = 0
    /\ Len(svCalls) < MaxCalls
    /\ LET i      == Len(svCalls) + 1
           caller == AllocArgs(svHeap, a)
       IN IF ~ToolsHas(toolName)
          THEN /\ svCalls' = Append(svCalls,
                     [NewCall(toolName, a, caller.ref, 0)
                         EXCEPT !.ex = "resolved",
                                !.result = UnknownToolResult(toolName)])
               /\ svHeap' = caller.heap
               /\ UNCHANGED <<svRunning, svGlobals, svFetchLog>>
          ELSE LET clone == StructuredClone(caller.heap, caller.ref)
                   c0 == [NewCall(toolName, a, caller.ref, clone.ref)
                             EXCEPT !.rh = "pending", !.inVm = TRUE,
                                    !.bindings = ContextFetchBindings]
                   w  == RunSegment(World(Append(svCalls, c0), clone.heap,
                                          svGlobals, svFetchLog), i, domains)
                   c1 == IF w.calls[i].h = "spinning"
                         THEN w.calls[i]
                         ELSE RaceSettled([w.calls[i] EXCEPT !.inVm = FALSE],
                                          svVerbose)
               IN /\ svCalls' = [w.calls EXCEPT ![i] = c1]
                  /\ svHeap' = w.heap
                  /\ svGlobals' = w.globals
                  /\ svFetchLog' = w.fetchLog
                  /\ svRunning' = StackAfter(c1, i)
    /\ UNCHANGED <<svVerbose, wlVars, plVars, suVars>>

\* The vm's timeout interrupts a handler that spins inside
\* script.runInContext: runInContext throws, runHandler rejects before it
\* arms its timer, execute catches.
VmWatchdog(i) ==
    /\ svRunning = i
    /\ svCalls[i].h = "spinning"
    /\ svCalls[i].inVm
    /\ svCalls' = [svCalls EXCEPT ![i] =
          RunHandlerRejects([svCalls[i] EXCEPT !.h = "killed", !.inVm = FALSE],
                            SCRIPT_TIMED_OUT)]
    /\ svRunning' = 0
    /\ UNCHANGED <<svVerbose, svHeap, svGlobals, svFetchLog, wlVars, plVars, suVars>>

\* What the handler awaited has settled and the event loop resumes it, whether
\* or not runHandler has given up on it in the meantime.
Resume(i) ==
    /\ svRunning = 0
    /\ i \in 1..Len(svCalls)
    /\ svCalls[i].h = "awaiting"
    /\ LET w  == ResumeSegment(World(svCalls, svHeap, svGlobals, svFetchLog),
                               i, domains)
           c1 == RaceSettled(w.calls[i], svVerbose)
       IN /\ svCalls' = [w.calls EXCEPT ![i] = c1]
          /\ svHeap' = w.heap
          /\ svGlobals' = w.globals
          /\ svFetchLog' = w.fetchLog
          /\ svRunning' = StackAfter(c1, i)
    /\ UNCHANGED <<svVerbose, wlVars, plVars, suVars>>

\* runHandler's setTimeout callback runs while the race is undecided: the
\* race rejects with "Handler timed out".  A timer callback needs an idle
\* event loop, like every other callback.
TimerFire(i) ==
    /\ svRunning = 0
    /\ i \in 1..Len(svCalls)
    /\ svCalls[i].ex = "pending"
    /\ svCalls[i].h \in {"awaiting", "never"}
    /\ svCalls' = [svCalls EXCEPT ![i] = RunHandlerRejects(svCalls[i], HANDLER_TIMED_OUT)]
    /\ UNCHANGED <<svVerbose, svRunning, svHeap, svGlobals, svFetchLog, wlVars, plVars, suVars>>

\* The steps the process takes by itself, once a call has been made.
SvProgress ==
    \E i \in 1..MaxCalls : VmWatchdog(i) \/ Resume(i) \/ TimerFire(i)

SvNext ==
    \/ \E toolName \in ToolNames, a \in ArgsSamples : Execute(toolName, a)
    \/ \E i \in 1..MaxCalls : VmWatchdog(i)
    \/ \E i \in 1..MaxCalls : Resume(i)
    \/ \E i \in 1..MaxCalls : TimerFire(i)

SpecServer == SvInit /\ [][SvNext]_vars

\* Node runs a callback that is ready whenever the stack is empty, and the
\* vm's watchdog and the timers do fire; requests arrive or not.
FairSpecServer == SpecServer /\ WF_vars(SvProgress)

-----------------------------------------------------------------------------
(* Claims about the executor and the sandbox *)

CallIds == 1..Len(svCalls)

IsText(result, prefix) ==
    /\ result.kind = "result"
    /\ result.content[1] = prefix

\* C4: execute(name, args) with a name that is not in the CompiledTools table
\* resolves, never rejects, to { content: [{type: "text", text: "Unknown tool:
\* <name>"}], isError: true }, and sandbox.runHandler is not invoked.
C4_UnknownTool ==
    \A i \in CallIds :
        ~ToolsHas(svCalls[i].tool) =>
            /\ svCalls[i].ex = "resolved"
            /\ svCalls[i].result.kind = "result"
            /\ svCalls[i].result.content = <<"Unknown tool: ", svCalls[i].tool>>
            /\ svCalls[i].result.isError
            /\ svCalls[i].rh = "none"
            /\ svCalls[i].h = "none"

\* An unknown tool was called after a known one had run its handler.
C4_Witness ==
    \E i, j \in CallIds :
        /\ i < j
        /\ svCalls[i].rh # "none"
        /\ svCalls[j].tool = UNKNOWN_TOOL
        /\ svCalls[j].ex = "resolved"

\* C5: execute(name, args) for a name in the table never rejects; when
\* runHandler rejects, execute resolves to an isError result whose text starts
\* with "Handler error: "; when runHandler resolves, execute returns that
\* result unchanged.
C5_ExecuteNeverRejects ==
    \A i \in CallIds :
        ToolsHas(svCalls[i].tool) =>
            /\ svCalls[i].ex # "rejected"
            /\ svCalls[i].rh = "rejected" =>
                  /\ svCalls[i].ex = "resolved"
                  /\ IsText(svCalls[i].result, "Handler error: ")
                  /\ svCalls[i].result.isError
            /\ svCalls[i].rh = "resolved" =>
                  /\ svCalls[i].ex = "resolved"
                  /\ svCalls[i].result = svCalls[i].rhValue

\* C6: every runHandler invocation eventually completes, by resolving with the
\* handler's result or by rejecting, whatever the handler does, and the event
\* loop is always freed again so that other requests can be answered.
C6_RunHandlerCompletes ==
    /\ \A i \in 1..MaxCalls :
          (i \in CallIds /\ svCalls[i].rh = "pending")
              ~> (i \in CallIds /\ svCalls[i].rh \in {"resolved", "rejected"})
    /\ (svRunning # 0) ~> (svRunning = 0)

\* C7: nothing written by one handler, properties set on the built-in objects
\* it is given included, is observable by another invocation: a handler that
\* reads such a property sees the value it had when the server started.
C7_NoSharedState ==
    \A i \in CallIds :
        svCalls[i].seen # "" => svCalls[i].seen = "0"

\* C8: runHandler leaves the caller's args object unchanged, nested objects
\* included, during and after the call, whatever the handler does to the args
\* it received.
C8_ArgsUnchanged ==
    \A i \in CallIds :
        ArgsValue(svHeap, svCalls[i].argsRef) = svCalls[i].args

\* A handler has changed the args it received, at the top and in the nested
\* object.
C8_Witness ==
    \E i \in CallIds :
        /\ svCalls[i].tool = "mutate"
        /\ svCalls[i].h = "returned"
        /\ svHeap[svCalls[i].inputArgs].name = "mutated"
        /\ ArgsValue(svHeap, svCalls[i].inputArgs).value = 999

\* C9: the handler of a tool whose needs_network is false runs with no binding
\* that gives it the gated or the underlying fetch, and causes no outbound
\* request.
C9_PureToolHasNoFetch ==
    \A i \in CallIds :
        (ToolsHas(svCalls[i].tool) /\ ~CompiledTools[svCalls[i].tool].needs_network) =>
            /\ svCalls[i].bindings = {}
            /\ \A entry \in svFetchLog : entry[1] # i

-----------------------------------------------------------------------------
(* cache.ts: the file-backed cache.

   A fingerprint is the first 16 hexadecimal digits of a SHA-256 digest; here
   it is a string of four.  A file's content is either the text of a JSON
   document, held as the value it parses to, or text that does not parse. *)

PROMPT_HASHES == {"00aa", "00bb"}
CONTENT_HASHES == {"11cc", "11dd"}

\* The keys looked up and written: one prompt with two document sets, and a
\* second prompt.
CacheKeys == {<<"00aa", "11cc">>, <<"00aa", "11dd">>, <<"00bb", "11cc">>}

\* `${promptHash}.json`
CacheFilenamePromptOnly(promptHash, contentHash) ==
    promptHash \o ".json"

\* cacheFilename: `${promptHash}-${contentHash}.json`
CacheFilename(promptHash, contentHash) ==
    promptHash \o "-" \o contentHash \o ".json"

JArray(items) == [isArray |-> TRUE, items |-> items]
JNotArray == [isArray |-> FALSE, items |-> <<>>]

\* A CacheEntry as main builds it.
Entry(promptHash, contentHash, createdAt) ==
    [ promptHash |-> promptHash, contentHash |-> contentHash,
      plan |-> "plan", compiledTools |-> JArray(<<"tool">>),
      whitelist_domains |-> JArray(<<"example.com">>), createdAt |-> createdAt ]

CacheEntryFields ==
    {"promptHash", "contentHash", "plan", "compiledTools", "whitelist_domains",
     "createdAt"}

EntrySamples(key) == {Entry(key[1], key[2], t) : t \in {"t1", "t2"}}

Without(o, field) == [f \in DOMAIN o \ {field} |-> o[f]]

\* JSON.stringify(entry, null, 2): the text of the object.
JsonStringify(o) == [kind |-> "json", t |-> "object", o |-> o]

NOT_JSON  == [kind |-> "text", t |-> "", o |-> NoFiles]
JSON_NULL == [kind |-> "json", t |-> "null", o |-> NoFiles]

\* Files something other than set may have left under a key's name: text that
\* is not JSON, the document null, and entries that lack a field or hold a
\* compiledTools that is no array.
ForeignFiles(key) ==
    LET e == Entry(key[1], key[2], "t1")
    IN { NOT_JSON, JSON_NULL,
         JsonStringify(Without(e, "plan")),
         JsonStringify(Without(e, "whitelist_domains")),
         JsonStringify([e EXCEPT !.compiledTools = JNotArray]) }

\* JSON.parse(raw) throws on text that is no JSON document.
JsonParseThrows(raw) == raw.kind # "json"

\* !parsed[field], for a field that holds a string when present.
FieldFalsy(o, field) == field \notin DOMAIN o \/ o[field] = ""

\* !parsed[field], for a field that holds an object when present.
FieldMissing(o, field) == field \notin DOMAIN o

\* Array.isArray(parsed[field])
FieldIsArray(o, field) == field \in DOMAIN o /\ o[field].isArray

Remove(files, name) == [f \in DOMAIN files \ {name} |-> files[f]]

\* get(promptHash, contentHash): what it returns and the directory it leaves.
\* Reading a property of null throws, and the catch block removes the file.
CacheGet(enabled, files, promptHash, contentHash) ==
    LET filepath == CacheFilename(promptHash, contentHash)
        miss(fs) == [hit |-> FALSE, entry |-> NoFiles, files |-> fs]
    IN IF ~enabled THEN miss(files)
       ELSE IF filepath \notin DOMAIN files THEN miss(files)
       ELSE LET raw == files[filepath]
            IN IF JsonParseThrows(raw) \/ raw.t = "null"
               THEN miss(Remove(files, filepath))
               ELSE IF \/ FieldFalsy(raw.o, "promptHash")
                       \/ FieldFalsy(raw.o, "contentHash")
                       \/ FieldMissing(raw.o, "plan")
                       \/ ~FieldIsArray(raw.o, "compiledTools")
                    THEN miss(Remove(files, filepath))
                    ELSE [hit |-> TRUE, entry |-> raw.o, files |-> files]

\* set(entry): the directory it leaves.
CacheSet(enabled, files, entry) ==
    IF ~enabled THEN files
    ELSE (CacheFilename(entry.promptHash, entry.contentHash)
             :> JsonStringify(entry)) @@ files

CaInit ==
    /\ WlIdle
    /\ domains = {}
    /\ PlIdle
    /\ SvIdle
    /\ caEnabled \in BOOLEAN
    /\ caFiles = NoFiles
    /\ caLast = NoGet
    /\ caWritten = NoFiles
    /\ FnIdle
    /\ MnIdle
    /\ CoIdle
    /\ RqIdle
    /\ SdIdle

CaSet(entry) ==
    /\ caFiles' = CacheSet(caEnabled, caFiles, entry)
    /\ caWritten' = (<<entry.promptHash, entry.contentHash>>
                        :> [by |-> "set", entry |-> entry]) @@ caWritten
    /\ caLast' = NoGet
    /\ UNCHANGED <<caEnabled, wlVars, plVars, svVars, fnVars, mnVars, coVars, rqVars, sdVars>>

\* A get; when it removes the file the key is as if never written.
CaGet(key) ==
    LET g == CacheGet(caEnabled, caFiles, key[1], key[2])
    IN /\ caLast' = [key |-> key, hit |-> g.hit, entry |-> g.entry]
       /\ caFiles' = g.files
       /\ caWritten' = IF g.files = caFiles THEN caWritten
                       ELSE Remove(caWritten, key)
       /\ UNCHANGED <<caEnabled, wlVars, plVars, svVars, fnVars, mnVars, coVars, rqVars, sdVars>>

\* Something else (an interrupted write, an editor, another version of the
\* program) leaves a file under a key's name.
CaForeign(key, raw) ==
    /\ caFiles' = (CacheFilename(key[1], key[2]) :> raw) @@ caFiles
    /\ caWritten' = (key :> [by |-> "other", entry |-> NoFiles]) @@ caWritten
    /\ caLast' = NoGet
    /\ UNCHANGED <<caEnabled, wlVars, plVars, svVars, fnVars, mnVars, coVars, rqVars, sdVars>>

CaNext ==
    \/ \E key \in CacheKeys : \E entry \in EntrySamples(key) : CaSet(entry)
    \/ \E key \in CacheKeys : CaGet(key)
    \/ \E key \in CacheKeys : \E raw \in ForeignFiles(key) : CaForeign(key, raw)

SpecCache == CaInit /\ [][CaNext]_vars

-----------------------------------------------------------------------------
(* index.ts buildContentHash and cache.ts serializeCompiled /
   deserializeCompiled, applied to inputs drawn from bounded sets. *)

\* FetchedContent, as far as the fingerprint reads it.
Doc(url, content) == [url |-> url, content |-> content]

\* URLs in the order localeCompare gives them.
DOC_URLS ==
    << Http(API_EXAMPLE_COM, <<>>), Http(EXAMPLE_COM, <<"/", "p">>),
       Http(EVIL_COM, <<"/", "s">>) >>

DocSamples == {Doc(DOC_URLS[i], c) : i \in 1..Len(DOC_URLS), c \in {"alpha", "beta"}}

UrlRank(url) == CHOOSE i \in 1..Len(DOC_URLS) : DOC_URLS[i] = url

\* a.url.localeCompare(b.url): negative, zero or positive.
LocaleCompare(a, b) == UrlRank(a) - UrlRank(b)

\* x put behind the last item that does not sort after it.
InsertSorted(sorted, x) ==
    LET before == {i \in 1..Len(sorted) : LocaleCompare(sorted[i].url, x.url) <= 0}
        k == IF before = {} THEN 0 ELSE CHOOSE i \in before : \A j \in before : j <= i
    IN SubSeq(sorted, 1, k) \o <<x>> \o SubSeq(sorted, k + 1, Len(sorted))

\* The list as it is.
Unsorted(list) == list

\* [...contents].sort((a, b) => a.url.localeCompare(b.url)): a stable sort,
\* items that compare equal keep their order.
RECURSIVE SortByUrl(_)
SortByUrl(list) ==
    IF list = <<>> THEN <<>>
    ELSE InsertSorted(SortByUrl(SubSeq(list, 1, Len(list) - 1)), list[Len(list)])

\* sorted.map((c) => c.content).join("\n---\n")
RECURSIVE Join(_)
Join(list) ==
    IF list = <<>> THEN ""
    ELSE IF Len(list) = 1 THEN list[1].content
    ELSE list[1].content \o "\n---\n" \o Join(Tail(list))

\* hash(input): the head of a SHA-256 digest.  A digest is written as the
\* text it digests, so that two digests are equal exactly when the texts are.
Hash(input) == "sha256:" \o input

BuildContentHash(list) == Hash(Join(SortByUrl(list)))

\* ---- CompiledTools ----

CompiledTool(name, description, handler_code, needs_network) ==
    [ name |-> name, description |-> description, input_schema |-> "schema",
      handler_code |-> handler_code, needs_network |-> needs_network ]

CompiledToolSamples ==
    { CompiledTool(n, "d-" \o n, c, nn) :
        n \in {"get_items", "search", "add"}, c \in {"return 1"}, nn \in BOOLEAN }

\* A Map in insertion order: a sequence of entries with distinct keys.
MapEntry(key, value) == [key |-> key, value |-> value]

MapKeys(m) == {m[i].key : i \in 1..Len(m)}

\* tools.set(key, value): replaces the value of a key it has, appends otherwise.
MapSet(m, key, value) ==
    IF key \in MapKeys(m)
    THEN [i \in 1..Len(m) |-> IF m[i].key = key THEN MapEntry(key, value) ELSE m[i]]
    ELSE Append(m, MapEntry(key, value))

\* The CompiledTools values compilePlan and deserializeCompiled build: each
\* tool under its own name.
CompiledSamples ==
    { [tools |-> m, whitelist_domains |-> d] :
        m \in { t \in BoundedSeq([key : {"get_items", "search", "add"},
                                  value : CompiledToolSamples], MaxTools) :
                  /\ \A i \in 1..Len(t) : t[i].key = t[i].value.name
                  /\ \A i, j \in 1..Len(t) : i # j => t[i].key # t[j].key },
        d \in {<<>>, <<"api.example.com">>} }

\* serializeCompiled: the tools in iteration order, five fields each.
SerializeCompiled(compiled) ==
    [ i \in 1..Len(compiled.tools) |->
        LET tool == compiled.tools[i].value
        IN [ name |-> tool.name, description |-> tool.description,
             input_schema |-> tool.input_schema,
             handler_code |-> tool.handler_code,
             needs_network |-> tool.needs_network ] ]

\* The CacheEntry the round trip goes through.
EntryOf(compiled) ==
    [ promptHash |-> "p", contentHash |-> "c", plan |-> "plan",
      compiledTools |-> SerializeCompiled(compiled),
      whitelist_domains |-> compiled.whitelist_domains, createdAt |-> "t1" ]

RECURSIVE SetAll(_, _)
SetAll(m, items) ==
    IF items = <<>> THEN m
    ELSE SetAll(MapSet(m, items[1].name,
                       [ name |-> items[1].name,
                         description |-> items[1].description,
                         input_schema |-> items[1].input_schema,
                         handler_code |-> items[1].handler_code,
                         needs_network |-> items[1].needs_network ]),
                Tail(items))

\* A restoration that files every tool as not needing the network.
DeserializeCompiledNoNetwork(entry) ==
    [ tools |-> [ i \in 1..Len(entry.compiledTools) |->
                    MapEntry(entry.compiledTools[i].name,
                             [entry.compiledTools[i] EXCEPT !.needs_network = FALSE]) ],
      whitelist_domains |-> entry.whitelist_domains ]

\* deserializeCompiled
DeserializeCompiled(entry) ==
    [ tools |-> SetAll(<<>>, entry.compiledTools),
      whitelist_domains |-> entry.whitelist_domains ]

FnInit ==
    /\ WlIdle
    /\ domains = {}
    /\ PlIdle
    /\ SvIdle
    /\ CaIdle
    /\ MnIdle
    /\ CoIdle
    /\ RqIdle
    /\ SdIdle
    /\ \/ fnName = "buildContentHash" /\ fnInput \in BoundedSeq(DocSamples, MaxDocs)
       \/ fnName = "roundTrip" /\ fnInput \in CompiledSamples
    /\ fnDone = FALSE
    /\ fnOutput = <<>>

FnBuildContentHash ==
    /\ fnName = "buildContentHash"
    /\ ~fnDone
    /\ fnDone' = TRUE
    /\ fnOutput' = BuildContentHash(fnInput)
    /\ UNCHANGED <<fnName, fnInput, wlVars, plVars, svVars, caVars, mnVars, coVars, rqVars, sdVars>>

FnRoundTrip ==
    /\ fnName = "roundTrip"
    /\ ~fnDone
    /\ fnDone' = TRUE
    /\ fnOutput' = DeserializeCompiled(EntryOf(fnInput))
    /\ UNCHANGED <<fnName, fnInput, wlVars, plVars, svVars, caVars, mnVars, coVars, rqVars, sdVars>>

FnNext ==
    \/ FnBuildContentHash
    \/ FnRoundTrip

SpecFunctions == FnInit /\ [][FnNext]_vars

\* ---- claims about the fingerprint and the round trip ----

\* The lists that are permutations of list.
PermutationsOf(list) ==
    { [i \in 1..Len(list) |-> list[f[i]]] : f \in Permutations(1..Len(list)) }

DistinctUrls(list) ==
    \A i, j \in 1..Len(list) : i # j => list[i].url # list[j].url

\* The original statement of C13: every permutation of a list, lists in which
\* two items share a URL included, has the same content fingerprint.
C13_AsStated ==
    (fnName = "buildContentHash" /\ fnDone) =>
        \A other \in PermutationsOf(fnInput) : BuildContentHash(other) = fnOutput

\* C13: the content fingerprint does not depend on the order of the fetched
\* documents, for lists in which no two items have the same URL.
C13_HashOrderIndependent ==
    (fnName = "buildContentHash" /\ fnDone /\ DistinctUrls(fnInput)) =>
        \A other \in PermutationsOf(fnInput) : BuildContentHash(other) = fnOutput

\* A list of two documents given in descending URL order was fingerprinted.
C13_Witness ==
    /\ fnName = "buildContentHash"
    /\ fnDone
    /\ Len(fnInput) = 2
    /\ DistinctUrls(fnInput)
    /\ LocaleCompare(fnInput[1].url, fnInput[2].url) > 0
    /\ fnInput[1].content # fnInput[2].content

\* C14: deserializeCompiled applied to a CacheEntry built from
\* serializeCompiled(t) and t.whitelist_domains yields the same tools under the
\* same names, with the same description, input_schema, handler_code and
\* needs_network, in the same iteration order, and the same whitelist_domains.
C14_RoundTrip ==
    (fnName = "roundTrip" /\ fnDone) =>
        /\ Len(fnOutput.tools) = Len(fnInput.tools)
        /\ \A i \in 1..Len(fnInput.tools) :
              /\ fnOutput.tools[i].key = fnInput.tools[i].key
              /\ fnOutput.tools[i].value = fnInput.tools[i].value
        /\ fnOutput.whitelist_domains = fnInput.whitelist_domains

\* Two tools, the first of which needs the network, went through the round trip.
C14_Witness ==
    /\ fnName = "roundTrip"
    /\ fnDone
    /\ Len(fnInput.tools) = 2
    /\ fnInput.tools[1].value.needs_network
    /\ fnInput.whitelist_domains # <<>>

\* ---- claims about the cache ----

\* C11: with the cache enabled, a get for a key returns an entry equal to the
\* one last set for that key, and none for a key that was never set (another
\* content fingerprint under the same prompt fingerprint included); a set
\* therefore changes what get returns for its own key only.
C11_GetAfterSet ==
    caEnabled =>
        \A key \in CacheKeys :
            LET g == CacheGet(TRUE, caFiles, key[1], key[2])
            IN /\ (key \in DOMAIN caWritten /\ caWritten[key].by = "set") =>
                     (g.hit /\ g.entry = caWritten[key].entry)
               /\ key \notin DOMAIN caWritten => ~g.hit

\* A get returned the second entry set for (p, c1) while (p, c2) was never
\* set and a third key holds its own entry.
C11_Witness ==
    /\ caEnabled
    /\ caLast.key = <<"00aa", "11cc">>
    /\ caLast.hit
    /\ caLast.entry.createdAt = "t2"
    /\ <<"00aa", "11dd">> \notin DOMAIN caWritten
    /\ <<"00bb", "11cc">> \in DOMAIN caWritten
    /\ caWritten[<<"00bb", "11cc">>].by = "set"

\* C12: with the cache enabled, after a get a file that did not parse or
\* lacked any of the six CacheEntry fields is gone and the get returned none:
\* a file still there is a complete entry, and it is what the get returned.
C12_CorruptFileRemoved ==
    (caEnabled /\ caLast # NoGet) =>
        LET filepath == CacheFilename(caLast.key[1], caLast.key[2])
        IN IF filepath \in DOMAIN caFiles
           THEN /\ caFiles[filepath].kind = "json"
                /\ caFiles[filepath].t = "object"
                /\ DOMAIN caFiles[filepath].o = CacheEntryFields
                /\ caLast.hit
           ELSE ~caLast.hit

-----------------------------------------------------------------------------
(* index.ts: main, from the fetch of the prompt's URLs to the listening
   server, run twice over one cache directory.  caEnabled is
   config.cache.enabled of the run and caFiles the cache directory. *)

U_EXAMPLE == Http(EXAMPLE_COM, <<"/", "p">>)
U_EVIL    == Http(EVIL_COM, <<"/", "s">>)

\* Prompts: without a URL, with one, with two.
PromptSamples ==
    { [text |-> "p0", urls |-> <<>>],
      [text |-> "p1", urls |-> <<U_EXAMPLE>>],
      [text |-> "p2", urls |-> <<U_EVIL, U_EXAMPLE>>] }

\* What fetchUrl(url) resolves to when the fetch succeeds.
FetchedContent(url) ==
    IF url = U_EXAMPLE
    THEN [url |-> url, content |-> "alpha",
          discoveredUrls |-> <<Http(API_EXAMPLE_COM, <<>>)>>]
    ELSE [url |-> url, content |-> "beta", discoveredUrls |-> <<>>]

Configs == [dryRun : BOOLEAN, stdoutIsPipe : BOOLEAN, port : {0, 8000}]

\* Promise.all in place of Promise.allSettled: one rejection loses every value.
AllOrNothing(urls, results) ==
    IF \A i \in 1..Len(results) : results[i] = "fulfilled"
    THEN [i \in 1..Len(urls) |-> FetchedContent(urls[i])]
    ELSE <<>>

\* The loop of fetchUrls over the settled results: the values of the
\* fulfilled ones, in the order of urls.
RECURSIVE FulfilledValues(_, _)
FulfilledValues(urls, results) ==
    IF urls = <<>> THEN <<>>
    ELSE (IF Head(results) = "fulfilled" THEN <<FetchedContent(Head(urls))>> ELSE <<>>)
            \o FulfilledValues(Tail(urls), Tail(results))

\* [...whitelist.domains]
RECURSIVE SeqOfSet(_)
SeqOfSet(S) ==
    IF S = {} THEN <<>>
    ELSE LET x == CHOOSE y \in S : TRUE IN <<x>> \o SeqOfSet(S \ {x})

Range(f) == {f[i] : i \in DOMAIN f}

\* allows of a whitelist that matches a stored domain only as a whole.
ReconstructedAllowsExact(domainList, url) ==
    LET parsed == URLHostname(url)
    IN parsed.ok /\ parsed.hostname \in Range(domainList)

\* allows of reconstructWhitelist(domains)
ReconstructedAllows(domainList, url) ==
    LET parsed == URLHostname(url)
    IN IF ~parsed.ok THEN FALSE
       ELSE \E d \in Range(domainList) :
               \/ parsed.hostname = d
               \/ EndsWith(parsed.hostname, <<".">> \o d)

\* activeWhitelist.allows(url)
ActiveAllows(w, url) ==
    IF w.made = "built" THEN Allows(w.domains, url)
    ELSE ReconstructedAllows(SeqOfSet(w.domains), url)

\* The plans generatePlan may resolve to.
PlannedTool(name, needs_network) ==
    [name |-> name, description |-> "d-" \o name, input_schema |-> "schema",
     endpoints_used |-> IF needs_network THEN <<"GET h://a.e.c/items">> ELSE <<>>,
     implementation_notes |-> "n-" \o name,
     needs_network |-> needs_network]

PlanSamples ==
    { [tools |-> <<PlannedTool("add", FALSE)>>],
      [tools |-> <<PlannedTool("get_items", TRUE), PlannedTool("search", FALSE)>>] }

\* executor.getExposedTools()
GetExposedTools(compiled) ==
    [ i \in 1..Len(compiled.tools) |->
        [ name |-> compiled.tools[i].value.name,
          description |-> compiled.tools[i].value.description,
          inputSchema |-> compiled.tools[i].value.input_schema ] ]

\* What main writes to stdout.
PlanOutput(plan) == [kind |-> "plan", value |-> plan.tools]

CachedSummaryOfPlan(compiled) ==
    [kind |-> "plan", value |-> <<>>]

CachedSummary(compiled) ==
    [kind |-> "cached",
     value |-> [i \in 1..Len(compiled.tools) |-> compiled.tools[i].key]]

OwnUrl(port) == [kind |-> "url", value |-> <<"http://localhost:", port, "/mcp", "\n">>]

\* The port the server is told to listen on, taken for the port it has.
RequestedPort(configPort, addressPort) == configPort

\* actualPort of start(): httpServer.address().port
ActualPort(configPort, addressPort) == addressPort

\* The ports the system may bind: the one asked for, any free one for 0.
BoundPorts(configPort) == IF configPort = 0 THEN {49152} ELSE {configPort}

\* The compile loop stops after its first tool.
CompileDoneEarly(plan, tools) == TRUE

\* The loop of compilePlan has gone through plan.tools.
CompileDone(plan, tools) == Len(tools) = Len(plan.tools)

\* The CacheEntry main writes.
MainEntry(promptHash, contentHash, plan, compiled, whitelistDomains) ==
    [ promptHash |-> promptHash, contentHash |-> contentHash, plan |-> plan,
      compiledTools |-> JArray(SerializeCompiled(compiled)),
      whitelist_domains |-> JArray(whitelistDomains), createdAt |-> "t1" ]

\* The entry a file parsed to, as deserializeCompiled reads it.
ParsedEntry(o) ==
    [o EXCEPT !.compiledTools = o.compiledTools.items,
              !.whitelist_domains = o.whitelist_domains.items]

MnInit ==
    /\ WlIdle
    /\ domains = {}
    /\ PlIdle
    /\ SvIdle
    /\ FnIdle
    /\ CoIdle
    /\ RqIdle
    /\ SdIdle
    /\ caEnabled \in BOOLEAN
    /\ caFiles = NoFiles
    /\ caLast = NoGet
    /\ caWritten = NoFiles
    /\ mnRun = 1
    /\ mnPc = "fetching"
    /\ mnConfig \in Configs
    /\ mnPrompt \in PromptSamples
    /\ mnFetches = [i \in 1..Len(mnPrompt.urls) |-> "pending"]
    /\ mnTrace = <<"fetchUrls">>
    /\ mnFirst = NoFirst
    /\ MnFresh

MnOthers == <<wlVars, plVars, svVars, fnVars, coVars, rqVars, sdVars, caLast, caWritten>>

\* One of the fetchUrl promises settles.
MnFetchSettles(i, status) ==
    /\ mnPc = "fetching"
    /\ i \in 1..Len(mnFetches)
    /\ mnFetches[i] = "pending"
    /\ mnFetches' = [mnFetches EXCEPT ![i] = status]
    /\ mnOrder' = Append(mnOrder, i)
    /\ UNCHANGED <<mnRun, mnPc, mnConfig, mnPrompt, mnContents, mnPlan, mnCompiled,
                   mnDomains, mnPort, mnTrace, mnStdout, mnFirst, mnReply, caEnabled,
                   caFiles, MnOthers>>

\* Promise.allSettled has resolved: fetchUrls returns, and main goes on with
\* buildWhitelist, the fingerprints and cache.get, up to its next await or to
\* its return.
MnFetched ==
    /\ mnPc = "fetching"
    /\ \A i \in 1..Len(mnFetches) : mnFetches[i] # "pending"
    /\ LET cs == FulfilledValues(mnPrompt.urls, mnFetches)
           whitelist == BuildWhitelist(mnPrompt.urls, cs)
           cached == CacheGet(caEnabled, caFiles, Hash(mnPrompt.text),
                              BuildContentHash(cs))
           compiled == DeserializeCompiled(ParsedEntry(cached.entry))
       IN /\ mnContents' = cs
          /\ caFiles' = cached.files
          /\ IF cached.hit
             THEN /\ mnCompiled' = compiled
                  /\ mnDomains' = [made |-> "reconstructed",
                                   domains |-> Range(compiled.whitelist_domains)]
                  /\ IF mnConfig.dryRun
                     THEN /\ mnStdout' = Append(mnStdout, CachedSummary(compiled))
                          /\ mnPc' = "exited"
                          /\ mnTrace' = mnTrace \o <<"cache.get:hit">>
                     ELSE /\ mnPc' = "starting"
                          /\ mnTrace' = mnTrace \o <<"cache.get:hit", "server.start">>
                          /\ UNCHANGED mnStdout
             ELSE /\ mnDomains' = [made |-> "built", domains |-> whitelist]
                  /\ mnPc' = "planning"
                  /\ mnTrace' = mnTrace \o <<"cache.get:miss", "createLLMClient",
                                              "generatePlan">>
                  /\ UNCHANGED <<mnCompiled, mnStdout>>
    /\ UNCHANGED <<mnRun, mnConfig, mnPrompt, mnFetches, mnOrder, mnPlan, mnPort,
                   mnFirst, mnReply, caEnabled, MnOthers>>

\* generatePlan settles; main prints the plan and returns on a dry run, and
\* enters compilePlan otherwise.
MnPlanned(outcome) ==
    /\ mnPc = "planning"
    /\ IF outcome = NoPlan
       THEN /\ mnPc' = "failed"
            /\ UNCHANGED <<mnPlan, mnStdout, mnTrace>>
       ELSE /\ mnPlan' = outcome
            /\ IF mnConfig.dryRun
               THEN /\ mnStdout' = Append(mnStdout, PlanOutput(outcome))
                    /\ mnPc' = "exited"
                    /\ UNCHANGED mnTrace
               ELSE /\ mnPc' = "compiling"
                    /\ mnTrace' = Append(mnTrace, "compilePlan")
                    /\ UNCHANGED mnStdout
    /\ UNCHANGED <<mnRun, mnConfig, mnPrompt, mnFetches, mnOrder, mnContents,
                   mnCompiled, mnDomains, mnPort, mnFirst, mnReply, caEnabled, caFiles,
                   MnOthers>>

\* compilePlan's loop body for the next planned tool, retry included: the
\* handler is compiled or compilePlan throws.  After the last tool main stores
\* the entry (writeFileSync may throw) and calls server.start().
MnCompileTool(ok, diskOk) ==
    /\ mnPc = "compiling"
    /\ LET plannedTool == mnPlan.tools[Len(mnCompiled.tools) + 1]
           tools == MapSet(mnCompiled.tools, plannedTool.name,
                           CompiledTool(plannedTool.name, plannedTool.description,
                                        "code-" \o plannedTool.name,
                                        plannedTool.needs_network))
           whitelistDomains == SeqOfSet(mnDomains.domains)
           compiled == [tools |-> tools, whitelist_domains |-> whitelistDomains]
       IN IF ~ok
          THEN /\ mnPc' = "failed"
               /\ UNCHANGED <<mnCompiled, mnTrace, caFiles>>
          ELSE IF ~CompileDone(mnPlan, tools)
          THEN /\ mnCompiled' = [mnCompiled EXCEPT !.tools = tools]
               /\ UNCHANGED <<mnPc, mnTrace, caFiles>>
          ELSE /\ mnCompiled' = compiled
               /\ IF caEnabled /\ ~diskOk
                  THEN /\ mnPc' = "failed"
                       /\ mnTrace' = Append(mnTrace, "compiled")
                       /\ UNCHANGED caFiles
                  ELSE /\ caFiles' = CacheSet(caEnabled, caFiles,
                                        MainEntry(Hash(mnPrompt.text),
                                                  BuildContentHash(mnContents),
                                                  mnPlan, compiled, whitelistDomains))
                       /\ mnPc' = "starting"
                       /\ mnTrace' = mnTrace \o <<"compiled", "cache.set", "server.start">>
    /\ UNCHANGED <<mnRun, mnConfig, mnPrompt, mnFetches, mnOrder, mnContents, mnPlan,
                   mnDomains, mnPort, mnStdout, mnFirst, mnReply, caEnabled,
                   MnOthers>>

\* httpServer.listen calls back, or emits "error": start() resolves to the
\* port, main writes its URL when stdout is a pipe, and installs the signal
\* handlers; or start() rejects and main fails.
MnListen(ok, addressPort) ==
    /\ mnPc = "starting"
    /\ IF ~ok
       THEN /\ mnPc' = "failed"
            /\ UNCHANGED <<mnPort, mnStdout, mnTrace>>
       ELSE /\ mnPort' = ActualPort(mnConfig.port, addressPort)
            /\ mnTrace' = Append(mnTrace, "listening")
            /\ mnPc' = "serving"
            /\ mnStdout' = IF mnConfig.stdoutIsPipe
                           THEN Append(mnStdout, OwnUrl(mnPort'))
                           ELSE mnStdout
    /\ UNCHANGED <<mnRun, mnConfig, mnPrompt, mnFetches, mnOrder, mnContents, mnPlan,
                   mnCompiled, mnDomains, mnFirst, mnReply, caEnabled, caFiles,
                   MnOthers>>

\* The first run has ended or is stopped, and the program is started again
\* with the same prompt, over the same cache directory.
MnRestart(config, enabled) ==
    /\ mnRun = 1
    /\ mnPc \in {"serving", "exited", "failed"}
    /\ mnFirst' = [ wrote |-> caEnabled /\ "cache.set" \in Range(mnTrace),
                    served |-> mnPc = "serving",
                    tools |-> GetExposedTools(mnCompiled),
                    admits |-> {u \in FetchUrls : ActiveAllows(mnDomains, u)},
                    contents |-> mnContents ]
    /\ mnRun' = 2
    /\ mnPc' = "fetching"
    /\ mnConfig' = config
    /\ caEnabled' = enabled
    /\ mnFetches' = [i \in 1..Len(mnPrompt.urls) |-> "pending"]
    /\ mnTrace' = <<"fetchUrls">>
    /\ mnOrder' = <<>>
    /\ mnContents' = <<>>
    /\ mnPlan' = NoPlan
    /\ mnCompiled' = NoCompiled
    /\ mnDomains' = NoDomains
    /\ mnPort' = 0
    /\ mnStdout' = <<>>
    /\ mnReply' = NoReply
    /\ UNCHANGED <<mnPrompt, caFiles, MnOthers>>

\* The name of the hidden tool.
MCP_METADATA == "_mcp_metadata"

\* The names a tools/call request may carry: each compiled tool, the hidden
\* tool, and a name no tool has.
RequestNames(compiled) ==
    {compiled.tools[i].key : i \in 1..Len(compiled.tools)}
        \cup {MCP_METADATA, UNKNOWN_TOOL}

\* executor.execute(name, args) as the server sees it: the unknown-tool result
\* for a name compiled.tools lacks, and otherwise what the run of the tool's
\* handler_code in the sandbox gives.
ExecutorResult(compiled, name) ==
    IF \E i \in 1..Len(compiled.tools) : compiled.tools[i].key = name
    THEN LET tool == (CHOOSE e \in Range(compiled.tools) : e.key = name).value
         IN Result("handler", <<"runHandler", tool.handler_code>>, FALSE, "none")
    ELSE UnknownToolResult(name)

\* The metadata blob of the hidden tool, as one text item.
MetadataResult(compiled) ==
    Result("result",
           <<JsonStringify(
               [ stage |-> "boot",
                 version |-> "0.1.0",
                 upstream_url |-> "null",
                 whitelist_domains |-> compiled.whitelist_domains,
                 tools |-> [ i \in 1..Len(compiled.tools) |->
                               [ name |-> compiled.tools[i].value.name,
                                 description |-> compiled.tools[i].value.description,
                                 input_schema |-> compiled.tools[i].value.input_schema,
                                 handler_code |-> compiled.tools[i].value.handler_code,
                                 needs_network |-> compiled.tools[i].value.needs_network ] ] ])>>,
           FALSE, "none")

\* A tools/call handler that hands every name to the executor.
CallToolExecutorOnly(compiled, name) == ExecutorResult(compiled, name)

\* The tools/call handler: the hidden tool is answered by the server itself,
\* every other name by the executor.
CallTool(compiled, name) ==
    IF name = MCP_METADATA THEN MetadataResult(compiled)
    ELSE ExecutorResult(compiled, name)

\* A tools/list request is answered.
MnListTools ==
    /\ mnPc = "serving"
    /\ mnReply' = [method |-> "tools/list", name |-> "",
                   result |-> GetExposedTools(mnCompiled)]
    /\ UNCHANGED <<mnRun, mnPc, mnConfig, mnPrompt, mnFetches, mnOrder, mnContents,
                   mnPlan, mnCompiled, mnDomains, mnPort, mnTrace, mnStdout, mnFirst,
                   caEnabled, caFiles, MnOthers>>

\* A tools/call request is answered.
MnCallTool(name) ==
    /\ mnPc = "serving"
    /\ name \in RequestNames(mnCompiled)
    /\ mnReply' = [method |-> "tools/call", name |-> name,
                   result |-> CallTool(mnCompiled, name)]
    /\ UNCHANGED <<mnRun, mnPc, mnConfig, mnPrompt, mnFetches, mnOrder, mnContents,
                   mnPlan, mnCompiled, mnDomains, mnPort, mnTrace, mnStdout, mnFirst,
                   caEnabled, caFiles, MnOthers>>

MnNext ==
    \/ \E i \in 1..2, status \in {"fulfilled", "rejected"} : MnFetchSettles(i, status)
    \/ MnFetched
    \/ \E outcome \in PlanSamples \cup {NoPlan} : MnPlanned(outcome)
    \/ \E ok \in BOOLEAN, diskOk \in BOOLEAN : MnCompileTool(ok, diskOk)
    \/ \E ok \in BOOLEAN : \E addressPort \in BoundPorts(mnConfig.port) :
          MnListen(ok, addressPort)
    \/ MnListTools
    \/ \E name \in RequestNames(mnCompiled) : MnCallTool(name)
    \/ \E config \in Configs, enabled \in BOOLEAN : MnRestart(config, enabled)

SpecMain == MnInit /\ [][MnNext]_vars

-----------------------------------------------------------------------------
(* Claims about main *)

Called(event) == event \in Range(mnTrace)

Before(a, b) ==
    \E i, j \in 1..Len(mnTrace) : i < j /\ mnTrace[i] = a /\ mnTrace[j] = b

Admitted(w) == {u \in FetchUrls : ActiveAllows(w, u)}

KeySeq(m) == [i \in 1..Len(m) |-> m[i].key]

\* C15: when the first run finished generation and wrote its cache entry, a
\* second start with the same prompt, the cache enabled and the same
\* documents never reaches the planner, the compiler or the LLM client, lists
\* the tools the first run listed, and its fetch admits exactly the URLs the
\* first run's whitelist admitted.
C15_SecondStartHitsCache ==
    (/\ mnRun = 2
     /\ mnFirst.wrote
     /\ caEnabled
     /\ mnPc # "fetching"
     /\ mnContents = mnFirst.contents)
    => /\ Called("cache.get:hit")
       /\ ~Called("createLLMClient")
       /\ ~Called("generatePlan")
       /\ ~Called("compilePlan")
       /\ GetExposedTools(mnCompiled) = mnFirst.tools
       /\ Admitted(mnDomains) = mnFirst.admits

C15_Witness ==
    /\ mnRun = 2
    /\ mnFirst.wrote
    /\ caEnabled
    /\ mnPc = "serving"
    /\ mnContents = mnFirst.contents
    /\ Len(mnContents) = 2
    /\ Len(mnFirst.tools) = 2

\* C16: server.start is called only after a cache hit, or after the planner
\* returned, every planned tool was compiled and cache.set returned; when the
\* planner or the compiler fails, main fails with no cache entry written and
\* no server listening.
C16_ListenAfterGeneration ==
    /\ Called("server.start") =>
          \/ Before("cache.get:hit", "server.start")
          \/ /\ Before("generatePlan", "compilePlan")
             /\ mnPlan \in PlanSamples
             /\ KeySeq(mnCompiled.tools) = [i \in 1..Len(mnPlan.tools) |-> mnPlan.tools[i].name]
             /\ Before("compilePlan", "cache.set")
             /\ Before("cache.set", "server.start")
             /\ caEnabled =>
                   CacheFilename(Hash(mnPrompt.text), BuildContentHash(mnContents))
                       \in DOMAIN caFiles
    /\ (mnPc = "failed" /\ mnTrace[Len(mnTrace)] \in {"generatePlan", "compilePlan"}) =>
          /\ ~Called("cache.set")
          /\ ~Called("server.start")
          /\ ~Called("listening")
          /\ caEnabled =>
                CacheFilename(Hash(mnPrompt.text), BuildContentHash(mnContents))
                    \notin DOMAIN caFiles
          /\ mnRun = 1 => caFiles = NoFiles

C16_Witness ==
    /\ mnPc = "serving"
    /\ Called("cache.set")
    /\ caEnabled
    /\ Len(mnPlan.tools) = 2

\* C17 as stated: a dry run that returns has written the generation plan, and
\* nothing else, to stdout, whether cache.get hit or missed, and has neither
\* compiled nor started the server.
C17_AsStated ==
    (mnConfig.dryRun /\ mnPc = "exited") =>
        /\ Len(mnStdout) = 1
        /\ mnStdout[1].kind = "plan"
        /\ ~Called("compilePlan")
        /\ ~Called("server.start")

\* C17: a dry run never compiles and never starts the server; when it returns
\* after a miss it has written the generation plan to stdout, and when it
\* returns after a hit it has written the cached-marker with the names of the
\* cached tools instead.
C17_DryRun ==
    mnConfig.dryRun =>
        /\ ~Called("compilePlan")
        /\ ~Called("server.start")
        /\ mnPc \in {"fetching", "planning", "exited", "failed"}
        /\ mnPc # "exited" => mnStdout = <<>>
        /\ (mnPc = "exited" /\ Called("cache.get:miss")) =>
              mnStdout = <<[kind |-> "plan", value |-> mnPlan.tools]>>
        /\ (mnPc = "exited" /\ Called("cache.get:hit")) =>
              mnStdout = <<[kind |-> "cached", value |-> KeySeq(mnCompiled.tools)]>>

C17_Witness ==
    /\ mnConfig.dryRun
    /\ mnPc = "exited"
    /\ Called("cache.get:hit")
    /\ Len(mnCompiled.tools) = 2

\* C18: in a run that serves, stdout stays empty until the server listens;
\* then, when stdout is not a terminal, it holds exactly one line, the URL
\* with the port the server is bound to (a real port also when port 0 was
\* asked for), and when stdout is a terminal it holds nothing.
C18_OwnUrlOnce ==
    ~mnConfig.dryRun =>
        /\ mnPc # "serving" => mnStdout = <<>>
        /\ mnPc = "serving" =>
              /\ mnPort \in BoundPorts(mnConfig.port)
              /\ mnPort # 0
              /\ mnStdout = IF mnConfig.stdoutIsPipe
                            THEN <<[kind |-> "url",
                                    value |-> <<"http://localhost:", mnPort, "/mcp", "\n">>]>>
                            ELSE <<>>

C18_Witness ==
    /\ mnPc = "serving"
    /\ mnConfig.stdoutIsPipe
    /\ mnConfig.port = 0
    /\ Len(mnStdout) = 1

\* C20: fetchUrls resolves, whatever the fetches did and in whatever order
\* they settled, to the documents of exactly the fulfilled URLs in the order
\* of its input; when every fetch fails the list is empty and main goes on to
\* the cache lookup and the planner with no documents.
C20_FetchUrlsSettles ==
    LET ok == {i \in 1..Len(mnFetches) : mnFetches[i] = "fulfilled"}
    IN /\ mnPc = "fetching" => mnTrace = <<"fetchUrls">>
       /\ mnPc # "fetching" =>
             /\ Len(mnOrder) = Len(mnPrompt.urls)
             /\ Len(mnContents) = Cardinality(ok)
             /\ \A i \in ok : \E k \in 1..Len(mnContents) :
                   mnContents[k] = FetchedContent(mnPrompt.urls[i])
             /\ \A k, l \in 1..Len(mnContents) : k < l =>
                   \E i, j \in ok : /\ i < j
                                    /\ mnContents[k].url = mnPrompt.urls[i]
                                    /\ mnContents[l].url = mnPrompt.urls[j]
             /\ Called("cache.get:hit") \/ Called("cache.get:miss")
             /\ (ok = {} /\ Called("cache.get:miss")) =>
                   /\ mnContents = <<>>
                   /\ Called("generatePlan")

C20_Witness ==
    /\ mnPc = "planning"
    /\ mnOrder = <<2, 1>>
    /\ mnFetches = <<"fulfilled", "fulfilled">>
    /\ Len(mnContents) = 2

C20_WitnessAllFail ==
    /\ mnPc = "planning"
    /\ Len(mnFetches) = 2
    /\ mnFetches = <<"rejected", "rejected">>

\* C19: a tools/call of _mcp_metadata is answered with a result that is not an
\* error and whose one text item is the JSON of stage "boot", a version, the
\* whitelist domains and, for each compiled tool in order, its name and its
\* handler source; a tools/list answer names exactly the compiled tools, and
\* so never _mcp_metadata.
C19_HiddenMetadataTool ==
    /\ (mnReply.method = "tools/call" /\ mnReply.name = MCP_METADATA) =>
          /\ mnReply.result.kind = "result"
          /\ ~mnReply.result.isError
          /\ Len(mnReply.result.content) = 1
          /\ LET text == mnReply.result.content[1]
             IN /\ DOMAIN text = {"kind", "t", "o"}
                /\ text.kind = "json"
                /\ text.o.stage = "boot"
                /\ text.o.version # ""
                /\ text.o.whitelist_domains = mnCompiled.whitelist_domains
                /\ Len(text.o.tools) = Len(mnCompiled.tools)
                /\ \A i \in 1..Len(text.o.tools) :
                      /\ text.o.tools[i].name = mnCompiled.tools[i].key
                      /\ text.o.tools[i].handler_code = mnCompiled.tools[i].value.handler_code
    /\ mnReply.method = "tools/list" =>
          /\ [i \in 1..Len(mnReply.result) |-> mnReply.result[i].name]
                = KeySeq(mnCompiled.tools)
          /\ \A i \in 1..Len(mnReply.result) : mnReply.result[i].name # MCP_METADATA

C19_Witness ==
    /\ mnReply.method = "tools/call"
    /\ mnReply.name = MCP_METADATA
    /\ Len(mnCompiled.tools) = 2
    /\ mnCompiled.whitelist_domains # <<>>

\* runHandler has rejected with the timeout error.
TimedOut(c) == c.rh = "rejected" /\ c.rhError = HANDLER_TIMED_OUT

\* C28: once runHandler has rejected a call with "Handler timed out", the
\* handler of that call takes no further step and makes no further call of the
\* gated fetch that reaches the underlying fetch.
C28_TimedOutHandlerStops ==
    [][\A i \in 1..Len(svCalls) :
          TimedOut(svCalls[i]) =>
             /\ svCalls'[i].h = svCalls[i].h
             /\ svCalls'[i].hpc = svCalls[i].hpc
             /\ {e \in svFetchLog' : e[1] = i} = {e \in svFetchLog : e[1] = i}]_vars

-----------------------------------------------------------------------------
(* engine/compiler.ts: compilePlan as a state machine, one step per
   llm.generate call that settles.  A handler source is a sequence of tokens;
   the token " " is a run of white space. *)

CODE_PURE           == <<"return", " ", "x">>
CODE_FETCH          == <<"await", " ", "fetch", "(", "u", ")">>
CODE_IMPORT         == <<"import", " ", "fs", " ", "from", " ", "'fs'">>
CODE_IMPORT_TIGHT   == <<"import", "'fs'">>
CODE_DYNAMIC        == <<"await", " ", "import", "(", "'fs'", ")">>
CODE_DYNAMIC_SPACED == <<"await", " ", "import", " ", "(", "'fs'", ")">>
CODE_REQUIRE        == <<"require", "(", "'fs'", ")">>
CODE_REQUIRE_SPACED == <<"require", " ", "(", "'fs'", ")">>
CODE_SYNTAX         == <<"const", " ", "x", "=", "{;">>

\* The line of three backquotes that opens or closes a fenced block.
FENCE == "fence"

\* The texts llm.generate may answer for a handler.
ResponseTexts ==
    { CODE_PURE, CODE_FETCH, CODE_IMPORT, CODE_IMPORT_TIGHT, CODE_DYNAMIC,
      CODE_DYNAMIC_SPACED, CODE_REQUIRE, CODE_REQUIRE_SPACED, CODE_SYNTAX,
      <<"Here", " ", FENCE>> \o CODE_FETCH \o <<FENCE>>,
      <<" ">> \o CODE_PURE \o <<" ">> }

\* text.trim()
RECURSIVE Trim(_)
Trim(text) ==
    IF text = <<>> THEN <<>>
    ELSE IF Head(text) = " " THEN Trim(Tail(text))
    ELSE IF text[Len(text)] = " " THEN Trim(SubSeq(text, 1, Len(text) - 1))
    ELSE text

\* extractCode(text): the inside of the first fenced block, else the text.
ExtractCode(text) ==
    LET fences == {i \in 1..Len(text) : text[i] = FENCE}
    IN IF Cardinality(fences) >= 2
       THEN LET a == CHOOSE i \in fences : \A j \in fences : i <= j
                b == CHOOSE i \in fences \ {a} : \A j \in fences \ {a} : i <= j
            IN Trim(SubSeq(text, a + 1, b - 1))
       ELSE Trim(text)

\* /\bimport\s+/.test(code)
ImportPattern(code) ==
    \E i \in 1..(Len(code) - 1) : code[i] = "import" /\ code[i + 1] = " "

\* /\brequire\s*\(/.test(code)
RequirePattern(code) ==
    \E i \in 1..Len(code) :
        /\ code[i] = "require"
        /\ \/ i + 1 <= Len(code) /\ code[i + 1] = "("
           \/ i + 2 <= Len(code) /\ code[i + 1] = " " /\ code[i + 2] = "("

\* new Function of the code wrapped as an async function(args, fetch) body does not
\* throw: the parser rejects a malformed token and an import declaration, and
\* takes import(...) as an expression.
ParsesAsBody(code) ==
    /\ \A i \in 1..Len(code) : code[i] # "{;"
    /\ \A i \in 1..Len(code) :
          code[i] = "import" =>
             \/ i + 1 <= Len(code) /\ code[i + 1] = "("
             \/ i + 2 <= Len(code) /\ code[i + 1] = " " /\ code[i + 2] = "("

\* validateCode(code): ok, or the message of the Error it throws.
ValidateCode(code) ==
    IF ImportPattern(code)
    THEN [ok |-> FALSE, message |-> "Generated code must not use import statements"]
    ELSE IF RequirePattern(code)
    THEN [ok |-> FALSE, message |-> "Generated code must not use require()"]
    ELSE IF ~ParsesAsBody(code)
    THEN [ok |-> FALSE, message |-> "Invalid JavaScript syntax"]
    ELSE [ok |-> TRUE, message |-> ""]

\* The prompt main was given, config.prompt.
ORIGINAL_PROMPT == "Create tools"

\* buildHandlerPrompt(prompt, tool, contents), by its sections.
BuildHandlerPrompt(prompt, tool, docs) ==
    [ prompt |-> prompt, name |-> tool.name, description |-> tool.description,
      input_schema |-> tool.input_schema,
      implementation_notes |-> tool.implementation_notes,
      network |-> tool.needs_network,
      endpoints |-> IF tool.needs_network THEN tool.endpoints_used ELSE <<>>,
      contents |-> [i \in 1..Len(docs) |-> [url |-> docs[i].url, content |-> docs[i].content]] ]

\* systemPrompt of compilePlan
SystemPrompt(tool) ==
    IF tool.needs_network THEN "SYSTEM_PROMPT_NETWORK" ELSE "SYSTEM_PROMPT_PURE"

\* The llm.generate call compilePlan makes for a tool.
CompileCall(tool, docs) ==
    [ tool |-> tool.name, system |-> SystemPrompt(tool),
      user |-> BuildHandlerPrompt("", tool, docs), outcome |-> "pending" ]

\* The last call has settled: it threw, or its code was invalid or accepted.
Settled(calls, outcome) == [calls EXCEPT ![Len(calls)].outcome = outcome]

\* A catch of the llm.generate error that tries once more.
LlmCatchRetries(attempt) == IF attempt = 0 THEN "continue" ELSE "throw"

\* The catch around llm.generate in compilePlan: it throws.
LlmCatch(attempt) == "throw"

\* A loop that gives a tool a third attempt.
AttemptsLeftThree(attempt) == attempt + 1 < 3

\* attempt < 2, after attempt++
AttemptsLeft(attempt) == attempt + 1 < 2

CompileError(text, tool, cause) == [text |-> text, tool |-> tool, cause |-> cause]

CoInit ==
    /\ WlIdle
    /\ domains = {}
    /\ PlIdle
    /\ SvIdle
    /\ CaIdle
    /\ FnIdle
    /\ MnIdle
    /\ RqIdle
    /\ SdIdle
    /\ coPlan \in PlanSamples
    /\ coContents \in {<<>>, <<FetchedContent(U_EXAMPLE)>>}
    /\ coPc = "call"
    /\ coAttempt = 0
    /\ coCalls = <<CompileCall(coPlan.tools[1], coContents)>>
    /\ coTools = <<>>
    /\ coError = NoCompileError
    /\ coResult = NoCompiled

\* The pending llm.generate call settles and compilePlan runs on to its next
\* llm.generate call, to its return or to its throw.  The plan's names are
\* distinct, so the tool in hand is the one after those in the Map.
CoSettles(response) ==
    /\ coPc = "call"
    /\ LET plannedTool == coPlan.tools[Len(coTools) + 1]
           code == ExtractCode(response.text)
           v == ValidateCode(code)
           tools == MapSet(coTools, plannedTool.name,
                           CompiledTool(plannedTool.name, plannedTool.description,
                                        code, plannedTool.needs_network))
           outcome == IF response.kind = "throw" THEN "threw"
                      ELSE IF ~v.ok THEN "invalid" ELSE "accepted"
           calls == Settled(coCalls, outcome)
           again == /\ coAttempt' = coAttempt + 1
                    /\ coCalls' = Append(calls, CompileCall(plannedTool, coContents))
                    /\ UNCHANGED <<coPc, coTools, coError, coResult>>
       IN IF response.kind = "throw"
          THEN IF LlmCatch(coAttempt) = "throw"
               THEN /\ coPc' = "failed"
                    /\ coCalls' = calls
                    /\ coError' = CompileError("LLM error while compiling",
                                               plannedTool.name, "llm.generate")
                    /\ UNCHANGED <<coAttempt, coTools, coResult>>
               ELSE again
          ELSE IF ~v.ok
          THEN IF AttemptsLeft(coAttempt)
               THEN again
               ELSE /\ coPc' = "failed"
                    /\ coCalls' = calls
                    /\ coError' = CompileError("Failed to compile handler for",
                                               plannedTool.name, v.message)
                    /\ UNCHANGED <<coAttempt, coTools, coResult>>
          ELSE /\ coTools' = tools
               /\ UNCHANGED coError
               /\ IF Len(tools) < Len(coPlan.tools)
                  THEN /\ coAttempt' = 0
                       /\ coCalls' = Append(calls,
                                       CompileCall(coPlan.tools[Len(tools) + 1], coContents))
                       /\ UNCHANGED <<coPc, coResult>>
                  ELSE /\ coPc' = "returned"
                       /\ coCalls' = calls
                       /\ coResult' = [tools |-> tools, whitelist_domains |-> <<>>]
                       /\ UNCHANGED coAttempt
    /\ UNCHANGED <<coPlan, coContents, wlVars, plVars, svVars, caVars, fnVars, mnVars,
                   rqVars, sdVars>>

CoNext ==
    \/ \E text \in ResponseTexts : CoSettles([kind |-> "text", text |-> text])
    \/ CoSettles([kind |-> "throw", text |-> <<>>])

SpecCompiler == CoInit /\ [][CoNext]_vars

\* generatePlan and compilePlan, either one.
GenInit == PlInit \/ CoInit

GenNext == PlNext \/ CoNext

SpecGeneration == GenInit /\ [][GenNext]_vars

-----------------------------------------------------------------------------
(* Claims about the compiler *)

CallsFor(name) == {i \in 1..Len(coCalls) : coCalls[i].tool = name}

PlanIndex(name) == CHOOSE k \in 1..Len(coPlan.tools) : coPlan.tools[k].name = name

\* C22 as stated: generatePlan, and compilePlan for the tool in hand, reject on
\* an error thrown by llm.generate only after a second call.
C22_AsStated ==
    /\ (plPc = "failed" /\ plResponse.kind = "throw") => plCalls = 2
    /\ (coPc = "failed" /\ coError.cause = "llm.generate") =>
          Cardinality(CallsFor(coError.tool)) = 2

\* C22: an error thrown by llm.generate is fatal at once, on either attempt:
\* no further call is made, generatePlan rejects with an error naming the
\* planning phase, and compilePlan with one naming the tool being compiled.
C22_LlmErrorIsFatal ==
    /\ plResponse.kind = "throw" =>
          /\ plPc = "failed"
          /\ plLastError[1] = "LLM error during planning"
          /\ plCalls = plAttempt + 1
    /\ \A i \in 1..Len(coCalls) :
          coCalls[i].outcome = "threw" =>
             /\ i = Len(coCalls)
             /\ coPc = "failed"
             /\ coError.text = "LLM error while compiling"
             /\ coError.tool = coCalls[i].tool
             /\ coResult = NoCompiled

C22_Witness ==
    /\ coPc = "failed"
    /\ coError.cause = "llm.generate"
    /\ coAttempt = 0
    /\ Len(coTools) = 1

\* C24: compilePlan takes the planned tools in plan order, calls the LLM for a
\* tool only when every tool before it has its handler in the table, spends at
\* most two calls on a tool, the second only after an invalid first answer;
\* a tool invalid on both attempts makes it throw an error naming that tool,
\* with no table returned; the table it returns has exactly the plan's names,
\* in order, each with the plan's description, input_schema and needs_network.
C24_SequentialCompile ==
    /\ \A i, j \in 1..Len(coCalls) :
          i < j => PlanIndex(coCalls[i].tool) <= PlanIndex(coCalls[j].tool)
    /\ \A i \in 1..Len(coCalls) :
          /\ PlanIndex(coCalls[i].tool) <= Len(coTools) + 1
          /\ Cardinality(CallsFor(coCalls[i].tool)) <= 2
          /\ (i > 1 /\ coCalls[i - 1].tool = coCalls[i].tool) =>
                coCalls[i - 1].outcome = "invalid"
          /\ (i > 1 /\ coCalls[i - 1].tool # coCalls[i].tool) =>
                coCalls[i - 1].outcome = "accepted"
    /\ (coPc = "failed" /\ coError.cause # "llm.generate") =>
          /\ coError.tool = coPlan.tools[Len(coTools) + 1].name
          /\ Cardinality(CallsFor(coError.tool)) = 2
          /\ \A i \in CallsFor(coError.tool) : coCalls[i].outcome = "invalid"
    /\ coPc # "returned" => coResult = NoCompiled
    /\ coPc = "returned" =>
          /\ Len(coResult.tools) = Len(coPlan.tools)
          /\ \A k \in 1..Len(coPlan.tools) :
                /\ coResult.tools[k].key = coPlan.tools[k].name
                /\ coResult.tools[k].value.name = coPlan.tools[k].name
                /\ coResult.tools[k].value.description = coPlan.tools[k].description
                /\ coResult.tools[k].value.input_schema = coPlan.tools[k].input_schema
                /\ coResult.tools[k].value.needs_network = coPlan.tools[k].needs_network

C24_Witness ==
    /\ coPc = "failed"
    /\ coError.cause = "Invalid JavaScript syntax"
    /\ Len(coTools) = 1
    /\ Len(coCalls) = 4

\* C25: every handler_code in the table compilePlan returns parses as an async
\* function body and holds no import, be it a declaration or an import(...)
\* call, and no require( call.
C25_NoImportNoRequire ==
    coPc = "returned" =>
        \A k \in 1..Len(coResult.tools) :
            LET code == coResult.tools[k].value.handler_code
            IN /\ ParsesAsBody(code)
               /\ \A i \in 1..Len(code) : code[i] # "import"
               /\ ~RequirePattern(code)

\* C26: in the table compilePlan returns, a tool has needs_network true
\* exactly when its handler_code refers to fetch.
C26_NetworkFlagAgrees ==
    coPc = "returned" =>
        \A k \in 1..Len(coResult.tools) :
            LET code == coResult.tools[k].value.handler_code
            IN coResult.tools[k].value.needs_network
                  <=> (\E i \in 1..Len(code) : code[i] = "fetch")

\* C27: every llm.generate call of compilePlan carries, in its user prompt, the
\* tool's name, description, input schema and implementation notes, the prompt
\* mcpboot was given and the content of every fetched document, and has the
\* network system prompt exactly when the tool has needs_network true.
C27_HandlerPromptComplete ==
    \A i \in 1..Len(coCalls) :
        LET tool == coPlan.tools[PlanIndex(coCalls[i].tool)]
        IN /\ coCalls[i].user.name = tool.name
           /\ coCalls[i].user.description = tool.description
           /\ coCalls[i].user.input_schema = tool.input_schema
           /\ coCalls[i].user.implementation_notes = tool.implementation_notes
           /\ coCalls[i].user.prompt = ORIGINAL_PROMPT
           /\ Len(coCalls[i].user.contents) = Len(coContents)
           /\ \A d \in 1..Len(coContents) :
                 coCalls[i].user.contents[d].content = coContents[d].content
           /\ (coCalls[i].system = "SYSTEM_PROMPT_NETWORK") <=> tool.needs_network

-----------------------------------------------------------------------------
(* server.ts: the HTTP request handler, and the request id of log.ts.       *)
(* The handler is an async function: it runs until its next await, and the  *)
(* handlers of other requests run in between.  Each action below is one     *)
(* such stretch.  currentRequestId is one variable of the log module,       *)
(* shared by every request.                                                 *)

MaxRequests == 2    \* requests received in one run of the server

RequestKinds == {"tools/call", "tools/list", "health", "other"}

\* logEvent with logging on: the entry carries req_id when currentRequestId
\* is set.  req names the request whose handling made the call; the program
\* does not record it.
LogEvent(log, req, event, current) ==
    log \cup {[req |-> req, event |-> event, req_id |-> current]}

RqInit ==
    /\ WlIdle
    /\ domains = {}
    /\ PlIdle
    /\ SvIdle
    /\ CaIdle
    /\ FnIdle
    /\ MnIdle
    /\ CoIdle
    /\ SdIdle
    /\ RqIdle

RqOthers == <<wlVars, plVars, svVars, caVars, fnVars, mnVars, coVars, sdVars>>

\* A request arrives: setRequestId(reqId), logEvent("http_request"), and on
\* to the route.  GET /health and unknown routes have no await: they log,
\* answer and clear the id at once.  POST /mcp stops at await readBody(req).
RqArrive(kind) ==
    /\ Len(rqReqs) < MaxRequests
    /\ LET reqId == Len(rqReqs) + 1
           first == LogEvent(rqLog, reqId, "http_request", reqId)
       IN IF kind = "health"
          THEN /\ rqLog' = LogEvent(first, reqId, "health_check", reqId)
               /\ rqCurrent' = UNDEFINED_ID
               /\ rqReqs' = Append(rqReqs, [kind |-> kind, pc |-> "done"])
          ELSE IF kind = "other"
          THEN /\ rqLog' = LogEvent(first, reqId, "unknown_route", reqId)
               /\ rqCurrent' = UNDEFINED_ID
               /\ rqReqs' = Append(rqReqs, [kind |-> kind, pc |-> "done"])
          ELSE /\ rqLog' = first
               /\ rqCurrent' = reqId
               /\ rqReqs' = Append(rqReqs, [kind |-> kind, pc |-> "readBody"])
    /\ UNCHANGED RqOthers

\* readBody settles.  Resolved: logEvent("mcp_request_body"), then
\* await mcpServer.connect(transport).  Rejected: the catch block warns and
\* answers 500, and the handler ends with setRequestId(undefined).
RqBodyRead(i, ok) ==
    /\ i \in 1..Len(rqReqs)
    /\ rqReqs[i].pc = "readBody"
    /\ IF ok
       THEN /\ rqLog' = LogEvent(rqLog, i, "mcp_request_body", rqCurrent)
            /\ rqReqs' = [rqReqs EXCEPT ![i].pc = "connect"]
            /\ UNCHANGED rqCurrent
       ELSE /\ rqReqs' = [rqReqs EXCEPT ![i].pc = "done"]
            /\ rqCurrent' = UNDEFINED_ID
            /\ UNCHANGED rqLog
    /\ UNCHANGED RqOthers

\* connect has resolved and transport.handleRequest hands the message to
\* its handler.  tools/list logs and answers.  tools/call logs
\* mcp_call_tool_start, then executor.execute logs executor_start and stops
\* at await sandbox.runHandler.
RqConnected(i) ==
    /\ i \in 1..Len(rqReqs)
    /\ rqReqs[i].pc = "connect"
    /\ IF rqReqs[i].kind = "tools/list"
       THEN /\ rqLog' = LogEvent(rqLog, i, "mcp_list_tools", rqCurrent)
            /\ rqReqs' = [rqReqs EXCEPT ![i].pc = "respond"]
       ELSE /\ rqLog' = LogEvent(LogEvent(rqLog, i, "mcp_call_tool_start", rqCurrent),
                                 i, "executor_start", rqCurrent)
            /\ rqReqs' = [rqReqs EXCEPT ![i].pc = "runHandler"]
    /\ UNCHANGED <<rqCurrent, RqOthers>>

\* runHandler settles: execute logs executor_end or executor_error, and the
\* CallTool handler logs mcp_call_tool_end.
RqHandlerSettled(i, ok) ==
    /\ i \in 1..Len(rqReqs)
    /\ rqReqs[i].pc = "runHandler"
    /\ rqLog' = LogEvent(LogEvent(rqLog, i,
                                  IF ok THEN "executor_end" ELSE "executor_error",
                                  rqCurrent),
                         i, "mcp_call_tool_end", rqCurrent)
    /\ rqReqs' = [rqReqs EXCEPT ![i].pc = "respond"]
    /\ UNCHANGED <<rqCurrent, RqOthers>>

\* handleRequest resolves: the handler registers the close listener and
\* ends with setRequestId(undefined).
RqHandled(i) ==
    /\ i \in 1..Len(rqReqs)
    /\ rqReqs[i].pc = "respond"
    /\ rqReqs' = [rqReqs EXCEPT ![i].pc = "open"]
    /\ rqCurrent' = UNDEFINED_ID
    /\ UNCHANGED <<rqLog, RqOthers>>

\* The response closes: the listener calls setRequestId(undefined).
RqClose(i) ==
    /\ i \in 1..Len(rqReqs)
    /\ rqReqs[i].pc = "open"
    /\ rqReqs' = [rqReqs EXCEPT ![i].pc = "done"]
    /\ rqCurrent' = UNDEFINED_ID
    /\ UNCHANGED <<rqLog, RqOthers>>

RqNext ==
    \/ \E kind \in RequestKinds : RqArrive(kind)
    \/ \E i \in 1..MaxRequests, ok \in BOOLEAN : RqBodyRead(i, ok)
    \/ \E i \in 1..MaxRequests : RqConnected(i)
    \/ \E i \in 1..MaxRequests, ok \in BOOLEAN : RqHandlerSettled(i, ok)
    \/ \E i \in 1..MaxRequests : RqHandled(i)
    \/ \E i \in 1..MaxRequests : RqClose(i)

SpecRequests == RqInit /\ [][RqNext]_vars

-----------------------------------------------------------------------------
(* Claims about the request id *)

\* C29: every event logged while a request is handled carries that
\* request's own id, however the handlers of several requests interleave.
C29_EventsCarryOwnRequestId ==
    \A e \in rqLog : e.req_id = e.req

-----------------------------------------------------------------------------
(* index.ts: the shutdown handlers, and server.ts: stop.                    *)
(* The machine starts where main leaves the process: listening, with        *)
(* shutdown registered for SIGINT, SIGTERM and SIGPIPE.  A signal handler   *)
(* and a connection's end are callbacks of the event loop: each runs only   *)
(* when the tick and microtask queue of the callback before it is empty.    *)

MaxSignals == 3     \* signals delivered to the process
MaxConns == 2       \* connections open at a time

Signals == {"SIGINT", "SIGTERM", "SIGPIPE"}

EXIT_0 == "exit(0)"
EXIT_1 == "exit(1)"

Job(kind, k) == [kind |-> kind, shutdown |-> k]

\* httpServer.close(cb) inside stop(): with the listening handle still held,
\* cb itself is registered for 'close' and stop() resolves; without it, the
\* listener registered calls cb with ERR_SERVER_NOT_RUNNING and stop()
\* rejects.
CloseListenerAlwaysFails(handle, k) ==
    [shutdown |-> k, err |-> "ERR_SERVER_NOT_RUNNING"]

CloseListener(handle, k) ==
    [shutdown |-> k, err |-> IF handle THEN "" ELSE "ERR_SERVER_NOT_RUNNING"]

\* What a listener's callback queues: the continuation of shutdown k after
\* await server.stop(), resumed or thrown into.
Continuation(l) == Job(IF l.err = "" THEN "resume" ELSE "throw", l.shutdown)

\* close drops the handle and emits 'close' on the next tick once no
\* connection is left.
EmitCloseIfDrained(handle, conns) ==
    IF ~handle /\ conns = 0 THEN <<Job("emitClose", 0)>> ELSE <<>>

SdInit ==
    /\ WlIdle
    /\ domains = {}
    /\ PlIdle
    /\ SvIdle
    /\ CaIdle
    /\ FnIdle
    /\ MnIdle
    /\ CoIdle
    /\ RqIdle
    /\ sdHandle = TRUE
    /\ sdConns = 0
    /\ sdSignals = <<>>
    /\ sdListeners = <<>>
    /\ sdJobs = <<>>
    /\ sdRejected = {}
    /\ sdClosed = FALSE
    /\ sdExit = RUNNING

SdOthers == <<wlVars, plVars, svVars, caVars, fnVars, mnVars, coVars, rqVars>>

\* A client connects; a server that has dropped its handle accepts nobody.
SdConnectionOpens ==
    /\ sdExit = RUNNING
    /\ sdJobs = <<>>
    /\ sdHandle
    /\ sdConns < MaxConns
    /\ sdConns' = sdConns + 1
    /\ UNCHANGED <<sdHandle, sdSignals, sdListeners, sdJobs, sdRejected, sdClosed,
                   sdExit, SdOthers>>

\* A connection ends; the last one of a closing server lets it emit 'close'.
SdConnectionEnds ==
    /\ sdExit = RUNNING
    /\ sdJobs = <<>>
    /\ sdConns > 0
    /\ sdConns' = sdConns - 1
    /\ sdJobs' = EmitCloseIfDrained(sdHandle, sdConns - 1)
    /\ UNCHANGED <<sdHandle, sdSignals, sdListeners, sdRejected, sdClosed, sdExit,
                   SdOthers>>

\* shutdown(): log, then server.stop() up to its await.
SdSignal(sig) ==
    /\ sdExit = RUNNING
    /\ sdJobs = <<>>
    /\ Len(sdSignals) < MaxSignals
    /\ sdSignals' = Append(sdSignals, sig)
    /\ sdListeners' = Append(sdListeners, CloseListener(sdHandle, Len(sdSignals) + 1))
    /\ sdHandle' = FALSE
    /\ sdJobs' = EmitCloseIfDrained(FALSE, sdConns)
    /\ UNCHANGED <<sdConns, sdRejected, sdClosed, sdExit, SdOthers>>

\* The head of the queue runs.  'close' calls its listeners in the order
\* they were registered, once each.  A resumed shutdown calls
\* process.exit(0).  A shutdown thrown into rejects its own promise, which
\* nobody handles; when the queue has drained with such a rejection left,
\* the process dies of it with code 1.
SdRunJob ==
    /\ sdExit = RUNNING
    /\ sdJobs # <<>>
    /\ LET job == Head(sdJobs)
           rest == Tail(sdJobs)
       IN IF job.kind = "emitClose"
          THEN /\ sdClosed' = TRUE
               /\ sdListeners' = <<>>
               /\ sdJobs' = rest \o [n \in 1..Len(sdListeners) |->
                                        Continuation(sdListeners[n])]
               /\ UNCHANGED <<sdRejected, sdExit>>
          ELSE IF job.kind = "resume"
          THEN /\ sdExit' = EXIT_0
               /\ sdJobs' = rest
               /\ UNCHANGED <<sdRejected, sdClosed, sdListeners>>
          ELSE /\ sdRejected' = sdRejected \cup {job.shutdown}
               /\ sdJobs' = rest
               /\ sdExit' = IF rest = <<>> THEN EXIT_1 ELSE sdExit
               /\ UNCHANGED <<sdClosed, sdListeners>>
    /\ UNCHANGED <<sdHandle, sdConns, sdSignals, SdOthers>>

SdNext ==
    \/ SdConnectionOpens
    \/ SdConnectionEnds
    \/ \E sig \in Signals : SdSignal(sig)
    \/ SdRunJob

SpecShutdown == SdInit /\ [][SdNext]_vars

\* The queue always runs on, and every connection ends: a request in flight
\* is answered (a handler has 30 seconds at most) and an idle connection is
\* closed by close() or by the keep-alive timeout.
FairSpecShutdown ==
    SpecShutdown /\ WF_vars(SdRunJob) /\ WF_vars(SdConnectionEnds)

-----------------------------------------------------------------------------
(* Claims about shutdown *)

\* C30: once the server listens, whatever signals arrive (a second one while
\* the first shutdown is still closing the server included), the process
\* never exits with a code other than 0 and never has an unhandled
\* rejection, and it ends with the HTTP server closed and exit code 0.
C30_ShutdownExitsZero ==
    /\ [](sdExit \in {RUNNING, EXIT_0} /\ sdRejected = {})
    /\ (sdSignals # <<>>) ~> (sdExit = EXIT_0 /\ sdClosed /\ ~sdHandle)

\* Three signals were delivered, the later ones while the server was still
\* closing, and the process has exited with code 0.
C30_Witness ==
    /\ Len(sdSignals) = MaxSignals
    /\ sdExit = EXIT_0
    /\ sdClosed

=============================================================================
